---- MODULE Spec2Model ----
(***************************************************************************)
(* A model of the Crest HTTP framework core (muhammad-fiaz/Crest):         *)
(*   - the C worker pool and its task queue   (src/src/core/thread_pool.c) *)
(*   - the route and middleware tables        (src/src/core/app.c,         *)
(*                                             src/src/core/router.c)     *)
(*   - route lookup and pattern matching      (src/src/core/server.c)      *)
(* Strings of the program are sequences of one-character strings, so that  *)
(* the character loops of the code can be modelled as they are written.    *)
(***************************************************************************)
EXTENDS Integers, Sequences, FiniteSets, TLC

(***************************************************************************)
(* Bounds of the model.                                                    *)
(***************************************************************************)
\* pool->thread_count: the number of worker threads of the pool
thread_count == 2
\* number of client threads; client t calls crest_thread_pool_submit once,
\* with task t (function "task", argument t)
MaxTasks == 2

\* the null pointer, as a node or argument and as a function pointer
NULL == 0
NULLFN == "NULL"

Workers == 1..thread_count
Tasks == 1..MaxTasks
Submitters == Tasks

VARIABLES
    \* ---- struct crest_thread_pool / task_queue_t ----
    shutdown,     \* pool->shutdown
    head,         \* queue->head   (a node id, or NULL)
    tail,         \* queue->tail   (a node id, or NULL)
    size,         \* queue->size
    heap,         \* the task_node_t objects malloc'ed so far: heap[id]
    freed,        \* TRUE once task_queue_destroy has freed the queue
    \* ---- threads ----
    wpc,          \* position of each worker in thread_worker
    wtask,        \* the (function, arg) a worker obtained from task_queue_pop
    spc,          \* position of each client in crest_thread_pool_submit:
                  \* "idle", "push", or the value returned: "true", "false"
    dpc,          \* position of the thread running crest_thread_pool_destroy
    di,           \* the loop index i of crest_thread_pool_destroy
    fault,        \* TRUE once the process crashed on a use of freed memory
    \* ---- observation ----
    preDestroy,   \* the tasks submit had accepted when crest_thread_pool_destroy
                  \* was called
    popLog,       \* node ids in the order task_queue_pop handed them out
    executed,     \* executed[t]: how many times task t's function was invoked
    \* ---- struct crest_app ----
    routes,       \* app->routes, indexed from 0
    route_count,  \* app->route_count
    middleware,   \* app->middleware, indexed from 0
    middleware_count, \* app->middleware_count
    lastCall,     \* the last call of the registration API and its arguments
    \* ---- one call of match_route_pattern ----
    probe,        \* its pattern and path and, once it returned, its result
    \* ---- crest_run and handle_connection ----
    hpc,          \* position of the thread in crest_run: "create_socket",
                  \* "returned", "accept", and in handle_connection: "recv",
                  \* "middleware", "find", "handle", "send", "close"
    running,      \* app->running
    run_ret,      \* what crest_run returned, <<>> while it runs
    failed_call,  \* the call inside create_socket that failed, "none" if none
    client_fd,    \* what accept returned in this turn of the loop, <<>> before
                  \* accept and after close(client_fd)
    recvd,        \* what recv returned for the connection, <<>> before recv
    req,          \* the crest_request_t of the connection being handled
    res,          \* its crest_response_t
    mi,           \* the index i of the middleware loop
    middleware_passed, \* the local of that name
    route_found,  \* the index of the local route find_route returned, -1 for NULL
    \* ---- observation ----
    calls,        \* the middleware, find_route and handler calls made for
                  \* the connection, in order
    halted,       \* the response as the middleware that returned false left it
    written,      \* what send_response passed to send() for the connection
    \* ---- the response API called on a response of its own ----
    response,     \* the crest_response_t the calls are made on
    napi,         \* the number of calls made on it
    lastApi,      \* the last call: its function, its argument, and the
                  \* response before it
    \* ---- the JSON engine ----
    jpc,          \* "parse", "parsed", "stringified", "done"; "idle" when no
                  \* text is parsed
    jtext,        \* the text given to crest_json_parse
    jval,         \* what it returned: <<>> for NULL, else the value, with
                  \* the crest_json_set calls made on it since
    jstr,         \* what crest_json_stringify returned for the value
    jback,        \* what crest_json_parse returned for that text
    jsets,        \* the number of crest_json_set calls made
    jlast,        \* the last crest_json_set call and the value before it
    \* ---- the pooled server of server.cpp ----
    docs_enabled, \* app->docs_enabled
    route_mutex,  \* the thread that holds app->route_mutex, "free" if none
    cpp_routes,   \* app->routes[0 .. route_count - 1] of the C++ app
    route_capacity, \* app->route_capacity
    tpc,          \* where each worker is in handle_client
    treq,         \* the path each worker was asked for
    tstatus,      \* the status each worker answers with
    rpc,          \* where the owning thread is in a registration call
    rcall,        \* that call: its function, its path, its result
    nconn,        \* the connections accepted
    nreg,         \* the registration calls made
    \* ---- crest::ThreadPool ----
    tasks_,       \* the queue of tasks, each the number of its enqueue call
    stop_,        \* the stop flag
    cwpc,         \* where each worker is in worker_thread
    cwtask,       \* the task each worker took, 0 if none
    cexec,        \* how often each task was executed
    mpc,          \* where the thread that owns the pool is
    cji,          \* the worker ~ThreadPool joins next
    nenq,         \* the enqueue calls made
    \* ---- the response of the pooled server (http/response.c) ----
    hres,         \* the response: status, body, sent
    hfirst,       \* the first call made on it: content type, status, text
    hcalls,       \* the calls made on it
    hsock,        \* what handle_client passed to send
    hdone,        \* handle_client is past its send
    breq,              \* the request the middleware chain works on
    bres,              \* its response
    bchain,            \* app->middleware of that chain
    bi,                \* the middleware loop's index
    bpc,               \* where handle_connection is with that request
    bran,              \* what ran on the request, and the parsed body each saw
    \* ---- crest_route of router.cpp called from several threads ----
    capp,         \* the app's route table: routes, route_count, route_capacity
    cmutex,       \* who holds the app's route_mutex
    cpc,          \* where each registering thread is in crest_route
    ccall,        \* each thread's call: arguments, result, the app it found
    ncalls        \* the crest_route calls made

poolVars == <<shutdown, head, tail, size, heap, freed, wpc, wtask, spc,
              dpc, di, fault, preDestroy, popLog, executed>>

routerVars == <<routes, route_count, middleware, middleware_count, lastCall>>

serverVars == <<hpc, running, run_ret, failed_call, client_fd, recvd, req, res, mi,
                middleware_passed, route_found, calls, halted, written>>

apiVars == <<response, napi, lastApi>>

\* the variables no action of the pool, the router, the matcher or the server
\* touches
jsonVars == <<jpc, jtext, jval, jstr, jback, jsets, jlast>>

pooledVars == <<docs_enabled, route_mutex, cpp_routes, route_capacity, tpc, treq, tstatus,
                rpc, rcall, nconn, nreg>>

cppPoolVars == <<tasks_, stop_, cwpc, cwtask, cexec, mpc, cji, nenq>>

httpVars == <<hres, hfirst, hcalls, hsock, hdone>>

\* the body-parser chain
bodyVars == <<breq, bres, bchain, bi, bpc, bran>>

\* crest_route called from several threads
cppRouteVars == <<capp, cmutex, cpc, ccall, ncalls>>

restVars == <<apiVars, jsonVars, pooledVars, cppPoolVars, httpVars, bodyVars, cppRouteVars>>

vars == <<poolVars, routerVars, probe, serverVars, restVars>>

\* the tasks for which crest_thread_pool_submit has returned true
accepted == {t \in Tasks : spc[t] = "true"}

(***************************************************************************)
(* task_queue_t                                                            *)
(***************************************************************************)
\* a queue value: the fields task_queue_push / task_queue_pop work on
Queue == [head |-> head, tail |-> tail, size |-> size, heap |-> heap]

task_queue_create == [head |-> NULL, tail |-> NULL, size |-> 0, heap |-> <<>>]

\* a push that links the new node in front of head instead of behind tail
task_queue_push_front(q, function, arg) ==
    LET node == Len(q.heap) + 1
    IN [head |-> node,
        tail |-> IF q.tail # NULL THEN q.tail ELSE node,
        size |-> q.size + 1,
        heap |-> Append(q.heap, [function |-> function, arg |-> arg, next |-> q.head])]

\* task_queue_push, between lock and unlock: a fresh node is linked behind
\* tail. Node ids are given in the order of the pushes.
task_queue_push(q, function, arg) ==
    LET node == Len(q.heap) + 1
        linked == IF q.tail # NULL
                  THEN [q.heap EXCEPT ![q.tail].next = node]
                  ELSE q.heap
    IN [head |-> IF q.tail # NULL THEN q.head ELSE node,
        tail |-> node,
        size |-> q.size + 1,
        heap |-> Append(linked, [function |-> function, arg |-> arg, next |-> NULL])]

\* the content of a node after free(node)
FreedNode == [function |-> NULLFN, arg |-> NULL, next |-> NULL]

\* a pop that reads the node at head but leaves it linked
task_queue_pop_keep_head(q) ==
    [head |-> q.head, tail |-> q.tail, size |-> q.size - 1, heap |-> q.heap]

\* a pop that leaves tail alone when it unlinks the last node
task_queue_pop_keep_tail(q) ==
    LET node == q.head
        nh == q.heap[node].next
    IN [head |-> nh, tail |-> q.tail, size |-> q.size - 1,
        heap |-> [q.heap EXCEPT ![node] = FreedNode]]

\* task_queue_pop, after the wait loop: unlinks the node at head and frees it
task_queue_pop(q) ==
    LET node == q.head
        nh == q.heap[node].next
    IN [head |-> nh,
        tail |-> IF nh = NULL THEN NULL ELSE q.tail,
        size |-> q.size - 1,
        heap |-> [q.heap EXCEPT ![node] = FreedNode]]

SetQueue(q) ==
    /\ head' = q.head
    /\ tail' = q.tail
    /\ size' = q.size
    /\ heap' = q.heap

\* pthread_cond_signal: wakes one of the threads blocked in pthread_cond_wait,
\* if there is one. The result is the set of possible next values of wpc.
cond_signal(pc) ==
    IF \E w \in Workers : pc[w] = "wait"
    THEN {[pc EXCEPT ![w] = "pop"] : w \in {x \in Workers : pc[x] = "wait"}}
    ELSE {pc}

\* pthread_cond_broadcast: wakes every thread blocked in pthread_cond_wait
cond_broadcast(pc) == [w \in Workers |-> IF pc[w] = "wait" THEN "pop" ELSE pc[w]]

(***************************************************************************)
(* Initial state: crest_thread_pool_create has returned, every worker is   *)
(* at the top of its loop.                                                 *)
(***************************************************************************)
InitPool ==
    /\ shutdown = FALSE
    /\ head = task_queue_create.head
    /\ tail = task_queue_create.tail
    /\ size = task_queue_create.size
    /\ heap = task_queue_create.heap
    /\ freed = FALSE
    /\ wpc = [w \in Workers |-> "check"]
    /\ wtask = [w \in Workers |-> [function |-> NULLFN, arg |-> NULL]]
    /\ spc = [s \in Submitters |-> "idle"]
    /\ dpc = "idle"
    /\ di = 0
    /\ fault = FALSE
    /\ preDestroy = {}
    /\ popLog = <<>>
    /\ executed = [t \in Tasks |-> 0]

(***************************************************************************)
(* crest_thread_pool_submit                                                *)
(***************************************************************************)
\* a submit that does not look at the shutdown flag
submit_check_ignore_flag(flag) == "push"

\* the body of crest_thread_pool_submit up to the unlock of shutdown_mutex:
\* "false" when the call returns false, "push" when it goes on to push
submit_check(flag) == IF flag THEN "false" ELSE "push"

\* Client s calls submit. The pool must still exist.
SubmitCall(s) ==
    /\ ~fault
    /\ spc[s] = "idle"
    /\ dpc # "returned"
    /\ spc' = [spc EXCEPT ![s] = submit_check(shutdown)]
    /\ UNCHANGED <<routerVars, probe, serverVars, restVars, shutdown, head, tail, size, heap, freed, wpc, wtask, dpc, di,
                   fault, preDestroy, popLog, executed>>

\* return task_queue_push(pool->queue, function, arg), the queue being alive
SubmitPush(s) ==
    /\ ~fault
    /\ spc[s] = "push"
    /\ ~freed
    /\ SetQueue(task_queue_push(Queue, "task", s))
    /\ wpc' \in cond_signal(wpc)
    /\ spc' = [spc EXCEPT ![s] = "true"]
    /\ UNCHANGED <<routerVars, probe, serverVars, restVars, shutdown, freed, wtask, dpc, di, fault, preDestroy, popLog,
                   executed>>

\* The same push when crest_thread_pool_destroy has already freed the queue
\* and the pool: a use of freed memory. The call either appears to succeed
\* (the node is linked into memory nobody reads any more) or the process
\* crashes.
SubmitPushFreed(s) ==
    /\ ~fault
    /\ spc[s] = "push"
    /\ freed
    /\ \/ /\ spc' = [spc EXCEPT ![s] = "true"]
          /\ fault' = fault
       \/ /\ fault' = TRUE
          /\ spc' = spc
    /\ UNCHANGED <<routerVars, probe, serverVars, restVars, shutdown, head, tail, size, heap, freed, wpc, wtask,
                   dpc, di, preDestroy, popLog, executed>>

(***************************************************************************)
(* thread_worker                                                           *)
(***************************************************************************)
\* the shutdown check at the top of the loop: break, or go on to pop
worker_check(flag) == IF flag THEN "exit" ELSE "pop"

WorkerCheck(w) ==
    /\ ~fault
    /\ wpc[w] = "check"
    /\ wpc' = [wpc EXCEPT ![w] = worker_check(shutdown)]
    /\ UNCHANGED <<routerVars, probe, serverVars, restVars, shutdown, head, tail, size, heap, freed, wtask, spc,
                   dpc, di, fault, preDestroy, popLog,
                   executed>>

\* task_queue_pop with the mutex held and the queue empty: pthread_cond_wait
WorkerWait(w) ==
    /\ ~fault
    /\ wpc[w] = "pop"
    /\ size = 0
    /\ wpc' = [wpc EXCEPT ![w] = "wait"]
    /\ UNCHANGED <<routerVars, probe, serverVars, restVars, shutdown, head, tail, size, heap, freed, wtask, spc,
                   dpc, di, fault, preDestroy, popLog,
                   executed>>

\* task_queue_pop with the mutex held and the queue not empty
WorkerPop(w) ==
    /\ ~fault
    /\ wpc[w] = "pop"
    /\ size # 0
    /\ wtask' = [wtask EXCEPT ![w] = [function |-> heap[head].function,
                                      arg |-> heap[head].arg]]
    /\ popLog' = Append(popLog, head)
    /\ SetQueue(task_queue_pop(Queue))
    /\ wpc' = [wpc EXCEPT ![w] = "run"]
    /\ UNCHANGED <<routerVars, probe, serverVars, restVars, shutdown, freed, spc, dpc, di, fault,
                   preDestroy, executed>>

\* pthread_cond_wait may return without a signal
SpuriousWakeup(w) ==
    /\ ~fault
    /\ wpc[w] = "wait"
    /\ wpc' = [wpc EXCEPT ![w] = "pop"]
    /\ UNCHANGED <<routerVars, probe, serverVars, restVars, shutdown, head, tail, size, heap, freed, wtask, spc,
                   dpc, di, fault, preDestroy, popLog,
                   executed>>

\* if (function) function(task_arg); the task functions return. The next
\* turn of the loop starts with function = NULL and task_arg = NULL.
WorkerRun(w) ==
    /\ ~fault
    /\ wpc[w] = "run"
    /\ executed' = IF wtask[w].function = "task"
                   THEN [executed EXCEPT ![wtask[w].arg] = @ + 1]
                   ELSE executed
    /\ wtask' = [wtask EXCEPT ![w] = [function |-> NULLFN, arg |-> NULL]]
    /\ wpc' = [wpc EXCEPT ![w] = "check"]
    /\ UNCHANGED <<routerVars, probe, serverVars, restVars, shutdown, head, tail, size, heap, freed, spc,
                   dpc, di, fault, preDestroy, popLog>>

(***************************************************************************)
(* crest_thread_pool_destroy                                               *)
(***************************************************************************)
\* a destroy that pushes one sentinel too few
sentinel_count_short == thread_count - 1

\* the number of sentinel tasks crest_thread_pool_destroy pushes
sentinel_count == thread_count

\* pool->shutdown = true, under shutdown_mutex
DestroyCall ==
    /\ ~fault
    /\ dpc = "idle"
    /\ shutdown' = TRUE
    /\ preDestroy' = accepted
    /\ dpc' = "sentinels"
    /\ di' = 0
    /\ UNCHANGED <<routerVars, probe, serverVars, restVars, head, tail, size, heap, freed, wpc, wtask, spc,
                   fault, popLog, executed>>

\* one turn of the loop pushing thread_sentinel
DestroySentinel ==
    /\ ~fault
    /\ dpc = "sentinels"
    /\ di < sentinel_count
    /\ SetQueue(task_queue_push(Queue, "thread_sentinel", NULL))
    /\ wpc' \in cond_signal(wpc)
    /\ di' = di + 1
    /\ UNCHANGED <<routerVars, probe, serverVars, restVars, shutdown, freed, wtask, spc, dpc, fault,
                   preDestroy, popLog, executed>>

\* pthread_cond_broadcast(&pool->queue->cond)
DestroyBroadcast ==
    /\ ~fault
    /\ dpc = "sentinels"
    /\ di >= sentinel_count
    /\ wpc' = cond_broadcast(wpc)
    /\ dpc' = "join"
    /\ di' = 0
    /\ UNCHANGED <<routerVars, probe, serverVars, restVars, shutdown, head, tail, size, heap, freed, wtask, spc,
                   fault, preDestroy, popLog, executed>>

\* pthread_join(pool->threads[i], NULL)
DestroyJoin ==
    /\ ~fault
    /\ dpc = "join"
    /\ di < thread_count
    /\ wpc[di + 1] = "exit"
    /\ di' = di + 1
    /\ UNCHANGED <<routerVars, probe, serverVars, restVars, shutdown, head, tail, size, heap, freed, wpc, wtask, spc,
                   dpc, fault, preDestroy, popLog,
                   executed>>

\* task_queue_destroy frees the nodes still queued, then the queue; the pool
\* is freed and crest_thread_pool_destroy returns
DestroyFree ==
    /\ ~fault
    /\ dpc = "join"
    /\ di = thread_count
    /\ freed' = TRUE
    /\ dpc' = "returned"
    /\ UNCHANGED <<routerVars, probe, serverVars, restVars, shutdown, head, tail, size, heap, wpc, wtask, spc,
                   di, fault, preDestroy, popLog, executed>>

(***************************************************************************)
(* Strings                                                                 *)
(***************************************************************************)
\* the NULL char pointer: no string of the program is equal to it
NULLSTR == <<"NULL">>

\* the terminating NUL that s[i] reads at the end of a C string
NUL == "NUL"

\* s[i] of the C code, i counted from 1
CharAt(s, i) == IF i <= Len(s) THEN s[i] ELSE NUL

\* strchr(s, c) != NULL
strchr(s, c) == \E i \in 1..Len(s) : s[i] = c

\* snprintf or strncpy into a buffer of n bytes keeps at most n - 1 characters
Truncate(s, n) == IF Len(s) > n - 1 THEN SubSeq(s, 1, n - 1) ELSE s

(***************************************************************************)
(* Route and middleware tables: struct crest_app, register_route, crest_use *)
(***************************************************************************)
\* capacities of the tables (256 and 32 in the program, scaled down here)
CREST_MAX_ROUTES == 3
CREST_MAX_MIDDLEWARE == 2
CREST_MAX_PARAMS == 32
CREST_MAX_PATH_LEN == 512

\* crest_method_t
CREST_GET == 0
CREST_POST == 1
CREST_PUT == 2
CREST_DELETE == 3
CREST_PATCH == 4
CREST_HEAD == 5
CREST_OPTIONS == 6

\* an entry of a table that calloc zeroed and nobody wrote
EmptyRoute ==
    [method |-> 0, path |-> NULLSTR, pattern |-> NULLSTR, handler |-> NULLFN,
     description |-> NULLSTR, is_pattern |-> FALSE]

EmptyMiddleware == [handler |-> NULLFN]

RouteIndex == 0..(CREST_MAX_ROUTES - 1)
MiddlewareIndex == 0..(CREST_MAX_MIDDLEWARE - 1)

\* the app as the registration functions see it
App ==
    [routes |-> routes, route_count |-> route_count,
     middleware |-> middleware, middleware_count |-> middleware_count]

\* crest_create_with_config
crest_create ==
    [routes |-> [i \in RouteIndex |-> EmptyRoute], route_count |-> 0,
     middleware |-> [i \in MiddlewareIndex |-> EmptyMiddleware],
     middleware_count |-> 0]

SetApp(a) ==
    /\ routes' = a.routes
    /\ route_count' = a.route_count
    /\ middleware' = a.middleware
    /\ middleware_count' = a.middleware_count

\* an entry whose pattern string is set for every path
route_entry_keep_pattern(method, path, handler, description) ==
    LET is_pattern == strchr(path, ":") \/ strchr(path, "*")
    IN [method |-> method, path |-> path, handler |-> handler,
        description |-> description, is_pattern |-> is_pattern,
        pattern |-> path]

\* the fields register_route writes into an entry
route_entry(method, path, handler, description) ==
    LET is_pattern == strchr(path, ":") \/ strchr(path, "*")
    IN [method |-> method, path |-> path, handler |-> handler,
        description |-> description, is_pattern |-> is_pattern,
        pattern |-> IF is_pattern THEN path ELSE NULLSTR]

\* the first index at which the duplicate loop finds (method, path), or -1
duplicate_index(table, count, method, path) ==
    LET dups == {i \in 0..(count - 1) :
                    table[i].method = method /\ table[i].path = path}
    IN IF dups = {} THEN -1 ELSE CHOOSE i \in dups : \A j \in dups : i <= j

\* the length of the array app->routes, which is CREST_MAX_ROUTES
MaxRoutes(app) == Cardinality(DOMAIN app.routes)

\* a register_route without the duplicate loop: every call appends
register_route_append(app, method, path, handler, description) ==
    IF path = NULLSTR \/ handler = NULLFN THEN app
    ELSE IF app.route_count >= MaxRoutes(app) THEN app
    ELSE [app EXCEPT !.routes[app.route_count] =
                         route_entry(method, path, handler, description),
                     !.route_count = @ + 1]

\* a register_route without the capacity test
register_route_unbounded(app, method, path, handler, description) ==
    LET dup == duplicate_index(app.routes, app.route_count, method, path)
    IN IF path = NULLSTR \/ handler = NULLFN THEN app
       ELSE IF dup # -1
       THEN [app EXCEPT !.routes[dup] =
                            route_entry(method, path, handler, description)]
       ELSE [app EXCEPT !.routes =
                            [i \in (DOMAIN @) \cup {app.route_count} |->
                                IF i = app.route_count
                                THEN route_entry(method, path, handler, description)
                                ELSE @[i]],
                        !.route_count = @ + 1]

\* register_route
register_route(app, method, path, handler, description) ==
    LET dup == duplicate_index(app.routes, app.route_count, method, path)
    IN IF path = NULLSTR \/ handler = NULLFN THEN app
       ELSE IF app.route_count >= MaxRoutes(app) THEN app
       ELSE IF dup # -1
       THEN [app EXCEPT !.routes[dup] =
                            route_entry(method, path, handler, description)]
       ELSE [app EXCEPT !.routes[app.route_count] =
                            route_entry(method, path, handler, description),
                        !.route_count = @ + 1]

crest_get(app, path, handler, description) ==
    register_route(app, CREST_GET, path, handler, description)

crest_post(app, path, handler, description) ==
    register_route(app, CREST_POST, path, handler, description)

crest_put(app, path, handler, description) ==
    register_route(app, CREST_PUT, path, handler, description)

crest_delete(app, path, handler, description) ==
    register_route(app, CREST_DELETE, path, handler, description)

crest_patch(app, path, handler, description) ==
    register_route(app, CREST_PATCH, path, handler, description)

\* crest_use
crest_use(app, middleware_fn) ==
    IF middleware_fn = NULLFN THEN app
    ELSE IF app.middleware_count >= CREST_MAX_MIDDLEWARE THEN app
    ELSE [app EXCEPT !.middleware[app.middleware_count] = [handler |-> middleware_fn],
                     !.middleware_count = @ + 1]

(***************************************************************************)
(* crest_enable_dashboard                                                  *)
(***************************************************************************)
PathDocs == <<"/", "d", "o", "c", "s">>
PathRedoc == <<"/", "r", "e", "d", "o", "c">>
PathOpenapiJson == <<"/", "o", "p", "e", "n", "a", "p", "i", ".", "j", "s", "o", "n">>
PathDashboard == <<"/", "d", "a", "s", "h", "b", "o", "a", "r", "d">>
PathApiRoutes == <<"/", "a", "p", "i", "/", "r", "o", "u", "t", "e", "s">>

\* the descriptions of the reserved routes, abbreviated
DescDocs == <<"S", "w", "a", "g", "g", "e", "r">>
DescRedoc == <<"R", "e", "D", "o", "c">>
DescOpenapiJson == <<"O", "p", "e", "n", "A", "P", "I">>
DescDashboard == <<"L", "e", "g", "a", "c", "y">>
DescApiRoutes == <<"L", "i", "s", "t">>

\* crest_enable_dashboard: the five crest_get calls made when enable is true
crest_enable_dashboard(app, enable) ==
    IF ~enable THEN app
    ELSE LET a1 == crest_get(app, PathDocs, "crest_swagger_ui_handler", DescDocs)
             a2 == crest_get(a1, PathRedoc, "crest_redoc_ui_handler", DescRedoc)
             a3 == crest_get(a2, PathOpenapiJson, "crest_openapi_json_handler",
                             DescOpenapiJson)
             a4 == crest_get(a3, PathDashboard, "crest_dashboard_handler",
                             DescDashboard)
         IN crest_get(a4, PathApiRoutes, "crest_api_routes_handler", DescApiRoutes)

(***************************************************************************)
(* crest_router_t and crest_mount (src/src/core/router.c)                  *)
(***************************************************************************)
\* crest_router_create
crest_router_create(prefix) ==
    [prefix |-> IF prefix = NULLSTR THEN <<>> ELSE prefix,
     routes |-> [i \in RouteIndex |-> EmptyRoute], route_count |-> 0,
     middleware |-> [i \in MiddlewareIndex |-> EmptyMiddleware],
     middleware_count |-> 0]

\* router_register_route: as register_route, but is_pattern stays false
router_register_route(router, method, path, handler, description) ==
    LET dup == duplicate_index(router.routes, router.route_count, method, path)
        entry == [method |-> method, path |-> path, handler |-> handler,
                  description |-> description, is_pattern |-> FALSE,
                  pattern |-> NULLSTR]
    IN IF path = NULLSTR \/ handler = NULLFN THEN router
       ELSE IF router.route_count >= CREST_MAX_ROUTES THEN router
       ELSE IF dup # -1 THEN [router EXCEPT !.routes[dup] = entry]
       ELSE [router EXCEPT !.routes[router.route_count] = entry,
                           !.route_count = @ + 1]

crest_router_get(router, path, handler, description) ==
    router_register_route(router, CREST_GET, path, handler, description)

crest_router_post(router, path, handler, description) ==
    router_register_route(router, CREST_POST, path, handler, description)

\* crest_router_use
crest_router_use(router, middleware_fn) ==
    IF middleware_fn = NULLFN THEN router
    ELSE IF router.middleware_count >= CREST_MAX_MIDDLEWARE THEN router
    ELSE [router EXCEPT !.middleware[router.middleware_count] =
                            [handler |-> middleware_fn],
                        !.middleware_count = @ + 1]

\* crest_mount: the path a route of the router is registered under
prefixed_path(prefix, path) ==
    IF Len(prefix) > 0
    THEN IF prefix[Len(prefix)] = "/" /\ CharAt(path, 1) = "/"
         THEN Truncate(prefix \o Tail(path), CREST_MAX_PATH_LEN)
         ELSE IF prefix[Len(prefix)] # "/" /\ CharAt(path, 1) # "/"
         THEN Truncate(prefix \o <<"/">> \o path, CREST_MAX_PATH_LEN)
         ELSE Truncate(prefix \o path, CREST_MAX_PATH_LEN)
    ELSE Truncate(path, CREST_MAX_PATH_LEN)

\* crest_mount: the loop over the router's middleware, from index i on
RECURSIVE mount_middleware(_, _, _)
mount_middleware(app, router, i) ==
    IF i >= router.middleware_count THEN app
    ELSE mount_middleware(crest_use(app, router.middleware[i].handler), router, i + 1)

\* crest_mount: the switch on route->method
mount_route(app, route, path) ==
    IF route.method = CREST_GET
    THEN crest_get(app, path, route.handler, route.description)
    ELSE IF route.method = CREST_POST
    THEN crest_post(app, path, route.handler, route.description)
    ELSE IF route.method = CREST_PUT
    THEN crest_put(app, path, route.handler, route.description)
    ELSE IF route.method = CREST_DELETE
    THEN crest_delete(app, path, route.handler, route.description)
    ELSE IF route.method = CREST_PATCH
    THEN crest_patch(app, path, route.handler, route.description)
    ELSE app

\* crest_mount: the loop over the router's routes, from index i on
RECURSIVE mount_routes(_, _, _)
mount_routes(app, router, i) ==
    IF i >= router.route_count THEN app
    ELSE mount_routes(mount_route(app, router.routes[i],
                                  prefixed_path(router.prefix, router.routes[i].path)),
                      router, i + 1)

crest_mount(app, router) == mount_routes(mount_middleware(app, router, 0), router, 0)

(***************************************************************************)
(* match_route_pattern and find_route (src/src/core/server.c)              *)
(***************************************************************************)
\* the index at which a loop "while (*x && *x != '/') x++" started at i stops
RECURSIVE scan_segment(_, _)
scan_segment(s, i) ==
    IF i <= Len(s) /\ s[i] # "/" THEN scan_segment(s, i + 1) ELSE i

\* a final test that only wants the pattern consumed
match_end_pattern_only(pattern, path, p, u) == p > Len(pattern)

\* return (*p == '\0' && *u == '\0')
match_end(pattern, path, p, u) == p > Len(pattern) /\ u > Len(path)

\* match_route_pattern from the positions p and u on; params is the
\* request's path_params so far. The result is the value returned and the
\* request's path_params at the return.
RECURSIVE match_from(_, _, _, _, _)
match_from(pattern, path, p, u, params) ==
    IF p <= Len(pattern) /\ u <= Len(path)
    THEN IF pattern[p] = ":"
         THEN LET param_start == p + 1
                  pe == scan_segment(pattern, param_start)
                  param_len == pe - param_start
                  ue == scan_segment(path, u)
                  value_len == ue - u
              IN IF param_len = 0 THEN [ok |-> FALSE, params |-> params]
                 ELSE IF value_len = 0 THEN [ok |-> FALSE, params |-> params]
                 ELSE match_from(pattern, path, pe, ue,
                         IF Len(params) < CREST_MAX_PARAMS
                         THEN Append(params,
                                 [key |-> SubSeq(pattern, param_start, pe - 1),
                                  value |-> SubSeq(path, u, ue - 1)])
                         ELSE params)
         ELSE IF pattern[p] = "*" THEN [ok |-> TRUE, params |-> params]
         ELSE IF pattern[p] = path[u]
         THEN match_from(pattern, path, p + 1, u + 1, params)
         ELSE [ok |-> FALSE, params |-> params]
    ELSE [ok |-> match_end(pattern, path, p, u), params |-> params]

match_route_pattern(pattern, path, params) == match_from(pattern, path, 1, 1, params)

\* the test find_route makes on one route whose method matched
route_path_matches(route, path) ==
    IF route.is_pattern
    THEN match_route_pattern(route.path, path, <<>>).ok
    ELSE route.path = path

\* a scan that walks the table from its end
RECURSIVE find_route_down(_, _, _, _)
find_route_down(app, method, path, i) ==
    IF i < 0 THEN -1
    ELSE IF app.routes[i].method = method /\ route_path_matches(app.routes[i], path)
    THEN i
    ELSE find_route_down(app, method, path, i - 1)

find_route_last(app, method, path) ==
    find_route_down(app, method, path, app.route_count - 1)

\* find_route: the loop from index i on; the index of the route returned, or
\* -1 for NULL
RECURSIVE find_route_from(_, _, _, _)
find_route_from(app, method, path, i) ==
    IF i >= app.route_count THEN -1
    ELSE IF app.routes[i].method = method /\ route_path_matches(app.routes[i], path)
    THEN i
    ELSE find_route_from(app, method, path, i + 1)

find_route(app, method, path) == find_route_from(app, method, path, 0)

(***************************************************************************)
(* The registration API as actions                                         *)
(***************************************************************************)
PathUsersId == <<"/", "u", "s", "e", "r", "s", "/", ":", "i", "d">>
PathUsersNew == <<"/", "u", "s", "e", "r", "s", "/", "n", "e", "w">>

\* the paths the application registers
UserPaths == {PathUsersId, PathUsersNew}

\* the (handler, description) pairs the application registers with
Registrations ==
    {[handler |-> "h1", description |-> NULLSTR],
     [handler |-> "h2", description |-> <<"d">>]}

\* what the application registers with crest_put, crest_delete, crest_patch,
\* and the one (handler, description) it uses with them and with crest_post
OtherPaths == {PathUsersNew}
OtherRegistrations == {[handler |-> "h1", description |-> NULLSTR]}

\* the middleware functions the application installs
MiddlewareFns == {"m1"}

\* routers the application mounts: each is built with the router API
RouterUsers ==
    crest_router_use(
        crest_router_get(crest_router_create(<<"/", "u", "s", "e", "r", "s">>),
                         <<"/", "n", "e", "w">>, "h2", NULLSTR),
        "m1")

RouterUsersSlash ==
    crest_router_post(
        crest_router_get(crest_router_create(<<"/", "u", "s", "e", "r", "s", "/">>),
                         <<"/", ":", "i", "d">>, "h1", <<"d">>),
        <<":", "i", "d">>, "h1", NULLSTR)

Routers == {RouterUsers, RouterUsersSlash}

NoCall ==
    [fn |-> "none", method |-> 0, path |-> NULLSTR, handler |-> NULLFN,
     description |-> NULLSTR]

RegisterCall(method, path, r) ==
    [fn |-> "register", method |-> method, path |-> path, handler |-> r.handler,
     description |-> r.description]

InitRouter ==
    /\ routes = crest_create.routes
    /\ route_count = crest_create.route_count
    /\ middleware = crest_create.middleware
    /\ middleware_count = crest_create.middleware_count
    /\ lastCall = NoCall

CrestGet ==
    \E path \in UserPaths, r \in Registrations :
        /\ SetApp(crest_get(App, path, r.handler, r.description))
        /\ lastCall' = RegisterCall(CREST_GET, path, r)
        /\ UNCHANGED <<poolVars, probe, serverVars, restVars>>

CrestPost ==
    \E path \in UserPaths, r \in OtherRegistrations :
        /\ SetApp(crest_post(App, path, r.handler, r.description))
        /\ lastCall' = RegisterCall(CREST_POST, path, r)
        /\ UNCHANGED <<poolVars, probe, serverVars, restVars>>

CrestPut ==
    \E path \in OtherPaths, r \in OtherRegistrations :
        /\ SetApp(crest_put(App, path, r.handler, r.description))
        /\ lastCall' = RegisterCall(CREST_PUT, path, r)
        /\ UNCHANGED <<poolVars, probe, serverVars, restVars>>

CrestDelete ==
    \E path \in OtherPaths, r \in OtherRegistrations :
        /\ SetApp(crest_delete(App, path, r.handler, r.description))
        /\ lastCall' = RegisterCall(CREST_DELETE, path, r)
        /\ UNCHANGED <<poolVars, probe, serverVars, restVars>>

CrestPatch ==
    \E path \in OtherPaths, r \in OtherRegistrations :
        /\ SetApp(crest_patch(App, path, r.handler, r.description))
        /\ lastCall' = RegisterCall(CREST_PATCH, path, r)
        /\ UNCHANGED <<poolVars, probe, serverVars, restVars>>

CrestUse ==
    \E fn \in MiddlewareFns :
        /\ SetApp(crest_use(App, fn))
        /\ lastCall' = [NoCall EXCEPT !.fn = "use", !.handler = fn]
        /\ UNCHANGED <<poolVars, probe, serverVars, restVars>>

CrestMount ==
    \E router \in Routers :
        /\ SetApp(crest_mount(App, router))
        /\ lastCall' = [NoCall EXCEPT !.fn = "mount"]
        /\ UNCHANGED <<poolVars, probe, serverVars, restVars>>

CrestEnableDashboard ==
    /\ SetApp(crest_enable_dashboard(App, TRUE))
    /\ lastCall' = [NoCall EXCEPT !.fn = "dashboard"]
    /\ UNCHANGED <<poolVars, probe, serverVars, restVars>>

\* the reserved paths, and the handler crest_enable_dashboard binds each to
ReservedPaths == {PathDocs, PathRedoc, PathOpenapiJson, PathDashboard, PathApiRoutes}

BuiltInHandler(path) ==
    CASE path = PathDocs -> "crest_swagger_ui_handler"
      [] path = PathRedoc -> "crest_redoc_ui_handler"
      [] path = PathOpenapiJson -> "crest_openapi_json_handler"
      [] path = PathDashboard -> "crest_dashboard_handler"
      [] path = PathApiRoutes -> "crest_api_routes_handler"
      [] OTHER -> NULLFN

\* the routes array of an application that enables the dashboard has room
\* for the five reserved routes and DashboardRoom routes of its own
DashboardRoom == 1
DashboardIndex == 0..(5 + DashboardRoom - 1)

InitDashboard ==
    /\ routes = [i \in DashboardIndex |-> EmptyRoute]
    /\ route_count = 0
    /\ middleware = crest_create.middleware
    /\ middleware_count = crest_create.middleware_count
    /\ lastCall = NoCall

\* the paths an application that enables the dashboard registers itself:
\* the first and the last reserved path, and a path of its own
DashboardUserPaths == {PathDocs, PathApiRoutes, PathUsersNew}

\* the application registers a handler of its own on one of these paths
CrestGetReserved ==
    \E path \in DashboardUserPaths, r \in Registrations :
        /\ SetApp(crest_get(App, path, r.handler, r.description))
        /\ lastCall' = RegisterCall(CREST_GET, path, r)
        /\ UNCHANGED <<poolVars, probe, serverVars, restVars>>

NextDashboard ==
    \/ CrestEnableDashboard
    \/ CrestGetReserved

NextRouter ==
    \/ CrestGet
    \/ CrestPost
    \/ CrestPut
    \/ CrestDelete
    \/ CrestPatch
    \/ CrestUse
    \/ CrestMount
    \/ CrestEnableDashboard

(***************************************************************************)
(* One call of match_route_pattern on a pattern and a path                 *)
(***************************************************************************)
\* the largest number of "/"-separated segments of a pattern tried
MaxSegs == 3

\* the segments patterns and paths are put together from
PatternSegs ==
    {<<>>, <<"a">>, <<":", "i", "d">>, <<"*">>, <<"a", "*">>, <<"a", ":", "b">>}

PathSegs == {<<>>, <<"a">>, <<"a", "b">>}

RECURSIVE JoinSegs(_)
JoinSegs(segs) ==
    IF Len(segs) = 1 THEN segs[1]
    ELSE segs[1] \o <<"/">> \o JoinSegs(Tail(segs))

\* the strings of 1..n segments of S joined by "/"; a first segment that is
\* empty gives the leading "/"
StringsOf(S, n) == {JoinSegs(ss) : ss \in UNION {[1..k -> S] : k \in 1..n}}

ProbePatterns == StringsOf(PatternSegs, MaxSegs)
ProbePaths == StringsOf(PathSegs, MaxSegs + 1)

NoProbe ==
    [pattern |-> NULLSTR, path |-> NULLSTR, done |-> FALSE, ok |-> FALSE,
     params |-> <<>>]

InitProbe == probe = NoProbe

\* the calls made: every pattern against every path
ProbeInputs ==
    \E pt \in ProbePatterns, pa \in ProbePaths :
        probe = [NoProbe EXCEPT !.pattern = pt, !.path = pa]

\* match_route_pattern(pattern, path, req) on a request without parameters
MatchRoutePattern ==
    /\ probe.pattern # NULLSTR
    /\ ~probe.done
    /\ LET r == match_route_pattern(probe.pattern, probe.path, <<>>)
       IN probe' = [probe EXCEPT !.done = TRUE, !.ok = r.ok, !.params = r.params]
    /\ UNCHANGED <<poolVars, routerVars, serverVars, restVars>>

NextMatch == MatchRoutePattern

(***************************************************************************)
(* Texts: the strings the server formats and sends                         *)
(***************************************************************************)
\* the NULL char pointer where a text is expected
NULLTXT == "(null)"

\* the characters of a sequence from index i on, as one text
RECURSIVE StrFrom(_, _)
StrFrom(seq, i) == IF i > Len(seq) THEN "" ELSE seq[i] \o StrFrom(seq, i + 1)

\* the C string whose characters a sequence lists
Str(seq) == StrFrom(seq, 1)

\* snprintf(buf, n, ...) keeps the first n - 1 characters of the text
snprintf(n, text) == IF Len(text) > n - 1 THEN SubSeq(text, 1, n - 1) ELSE text

UpperCase == "ABCDEFGHIJKLMNOPQRSTUVWXYZ"
LowerCase == "abcdefghijklmnopqrstuvwxyz"

\* tolower on one character
tolower(c) ==
    IF \E k \in 1..Len(UpperCase) : SubSeq(UpperCase, k, k) = c
    THEN LET k == CHOOSE k \in 1..Len(UpperCase) : SubSeq(UpperCase, k, k) = c
         IN SubSeq(LowerCase, k, k)
    ELSE c

\* a text with tolower applied to each of its characters
LowerText(text) == Str([i \in 1..Len(text) |-> tolower(SubSeq(text, i, i))])

\* strcasecmp(a, b) == 0
strcasecmp(a, b) == LowerText(a) = LowerText(b)

\* const char *method_str[], indexed by crest_method_t
method_str ==
    [m \in 0..6 |-> <<"GET", "POST", "PUT", "DELETE", "PATCH", "HEAD", "OPTIONS">>[m + 1]]

(***************************************************************************)
(* The response API (src/src/core/response.c)                              *)
(***************************************************************************)
CREST_MAX_HEADERS == 64

CREST_STATUS_OK == 200
CREST_STATUS_CREATED == 201
CREST_STATUS_UNAUTHORIZED == 401
CREST_STATUS_NOT_FOUND == 404

\* create_response: calloc
create_response ==
    [status_code |-> 0, headers |-> <<>>, body |-> NULLTXT, body_len |-> 0,
     sent |-> FALSE]

crest_response_status(r, status) == [r EXCEPT !.status_code = status]

\* header_count is the length of headers
crest_response_header(r, key, value) ==
    IF key = NULLTXT \/ value = NULLTXT THEN r
    ELSE IF Len(r.headers) >= CREST_MAX_HEADERS THEN r
    ELSE [r EXCEPT !.headers = Append(@, [key |-> key, value |-> value])]

crest_response_send(r, body) ==
    IF body = NULLTXT THEN r
    ELSE LET r1 == [r EXCEPT !.body = body, !.body_len = Len(body), !.sent = TRUE]
             has_content_type ==
                 \E i \in 1..Len(r1.headers) :
                     strcasecmp(r1.headers[i].key, "Content-Type")
         IN IF ~has_content_type
            THEN crest_response_header(r1, "Content-Type", "text/plain")
            ELSE r1

crest_response_json(r, json) ==
    IF json = NULLTXT THEN r
    ELSE crest_response_send(
             crest_response_header(r, "Content-Type", "application/json"), json)

(***************************************************************************)
(* generate_detailed_404_error (src/src/core/server.c)                     *)
(***************************************************************************)
CREST_VERSION == "1.0.0"

\* the number of routes the 404 body lists at most (10 in the program,
\* scaled down with the route table)
ROUTES_SHOWN_MAX == 2

\* what strftime wrote for the time of the request
timestamp == "2025-01-01 12:00:00"

\* the first snprintf into error_json[4096]
error_json_head(request) ==
    snprintf(4096,
        "{"
        \o "\"error\":\"Not Found\","
        \o "\"message\":\"Route not found\","
        \o "\"details\":{"
        \o "\"requested_path\":\"" \o Str(request.path) \o "\","
        \o "\"requested_method\":\"" \o method_str[request.method] \o "\","
        \o "\"timestamp\":\"" \o timestamp \o "\","
        \o "\"server\":\"Crest/" \o CREST_VERSION \o "\""
        \o "},"
        \o "\"suggestions\":["
        \o "\"Check if the URL is correct and properly encoded\","
        \o "\"Ensure you're using the correct HTTP method (GET, POST, etc.)\","
        \o "\"Verify that the endpoint exists in your application\","
        \o "\"Check for trailing slashes or case sensitivity issues\""
        \o "],"
        \o "\"available_routes\":[")

\* the snprintf into route_entry[256] for the route at index i
route_entry_text(r, i) ==
    IF r.description # NULLSTR
    THEN snprintf(256,
             (IF i > 0 THEN "," ELSE "")
             \o "{\"method\":\"" \o method_str[r.method]
             \o "\",\"path\":\"" \o Str(r.path)
             \o "\",\"description\":\"" \o Str(r.description) \o "\"}")
    ELSE snprintf(256,
             (IF i > 0 THEN "," ELSE "")
             \o "{\"method\":\"" \o method_str[r.method]
             \o "\",\"path\":\"" \o Str(r.path) \o "\"}")

\* a limit that shows one route more
routes_to_show_one_more(app) ==
    IF app.route_count > ROUTES_SHOWN_MAX + 1
    THEN ROUTES_SHOWN_MAX + 1 ELSE app.route_count

\* size_t routes_to_show = app->route_count > 10 ? 10 : app->route_count
routes_to_show(app) ==
    IF app.route_count > ROUTES_SHOWN_MAX THEN ROUTES_SHOWN_MAX ELSE app.route_count

\* the loop that strcats the entries of the routes i .. n - 1 onto text
RECURSIVE strcat_routes(_, _, _, _)
strcat_routes(app, i, n, text) ==
    IF i < n
    THEN strcat_routes(app, i + 1, n, text \o route_entry_text(app.routes[i], i))
    ELSE text

\* The text returned. With a request path of at most 511 characters and at
\* most 10 entries of at most 255 characters the text stays below the 4096
\* bytes of error_json, so strcat never writes past the buffer.
generate_detailed_404_error(app, request) ==
    LET listed == strcat_routes(app, 0, routes_to_show(app), error_json_head(request))
        warned == listed \o "],\"warnings\":["
                  \o "\"This endpoint does not exist in the application\","
                  \o "\"Consider checking the API documentation or dashboard\""
    IN (IF app.route_count = 0
        THEN warned \o ",\"No routes have been registered with the application\""
        ELSE warned)
       \o "]}"

(***************************************************************************)
(* The request (src/src/core/request.c, parse_request in server.c)         *)
(***************************************************************************)
\* no request: the state of req outside handle_connection
NoRequest ==
    [method |-> 0, path |-> NULLSTR, path_params |-> <<>>, headers |-> <<>>,
     body |-> NULLTXT]

\* the method parse_request stores for a method token; calloc left 0 there
parse_method(token) ==
    IF token = "GET" THEN CREST_GET
    ELSE IF token = "POST" THEN CREST_POST
    ELSE IF token = "PUT" THEN CREST_PUT
    ELSE IF token = "DELETE" THEN CREST_DELETE
    ELSE IF token = "PATCH" THEN CREST_PATCH
    ELSE IF token = "HEAD" THEN CREST_HEAD
    ELSE IF token = "OPTIONS" THEN CREST_OPTIONS
    ELSE 0

\* the path token up to its first "?"
path_before_query(path) ==
    IF strchr(path, "?")
    THEN LET q == CHOOSE k \in 1..Len(path) :
                      path[k] = "?" /\ \A l \in 1..(k - 1) : path[l] # "?"
         IN SubSeq(path, 1, q - 1)
    ELSE path

\* the characters of a text, as the matchers read a path
Chars(text) == [i \in 1..Len(text) |-> SubSeq(text, i, i)]

\* isspace, for the characters a request can hold
isspace(c) == c \in {" ", "\t", "\n", "\r", "\f"}

\* the first index from i on that holds no white space, Len(text) + 1 if none
RECURSIVE skip_space(_, _)
skip_space(text, i) ==
    IF i <= Len(text) /\ isspace(SubSeq(text, i, i)) THEN skip_space(text, i + 1)
    ELSE i

\* the index behind the token a %<width>s conversion reads from index i
RECURSIVE token_end(_, _, _)
token_end(text, i, width) ==
    IF i <= Len(text) /\ width > 0 /\ ~isspace(SubSeq(text, i, i))
    THEN token_end(text, i + 1, width - 1)
    ELSE i

\* sscanf(text, "%15s %511s %15s", ...): the tokens converted, in order. A
\* conversion skips white space (line ends included), stops at white space or
\* at its width, and fails at the end of the text.
RECURSIVE sscanf_s(_, _, _)
sscanf_s(text, i, widths) ==
    IF widths = <<>> THEN <<>>
    ELSE LET b == skip_space(text, i)
             e == token_end(text, b, Head(widths))
         IN IF b > Len(text) THEN <<>>
            ELSE <<SubSeq(text, b, e - 1)>> \o sscanf_s(text, e, Tail(widths))

\* strchr(text, c) on a text: the index of the first c, 0 for NULL
strchr_at(text, c) ==
    IF \E k \in 1..Len(text) : SubSeq(text, k, k) = c
    THEN CHOOSE k \in 1..Len(text) :
             /\ SubSeq(text, k, k) = c
             /\ \A l \in 1..(k - 1) : SubSeq(text, l, l) # c
    ELSE 0

\* strstr(text, sub): the index of the first occurrence, 0 for NULL
strstr_at(text, sub) ==
    LET At(k) == k + Len(sub) - 1 <= Len(text) /\ SubSeq(text, k, k + Len(sub) - 1) = sub
    IN IF \E k \in 1..Len(text) : At(k)
       THEN CHOOSE k \in 1..Len(text) : At(k) /\ \A l \in 1..(k - 1) : ~At(l)
       ELSE 0

\* the tokens strtok(text, "\r\n") returns from index i on: the maximal runs
\* of characters other than "\r" and "\n"; strtok never returns an empty token
RECURSIVE strtok_lines(_, _)
strtok_lines(text, i) ==
    LET IsDelim(k) == SubSeq(text, k, k) \in {"\r", "\n"}
        b == CHOOSE k \in i..(Len(text) + 1) :
                 /\ k = Len(text) + 1 \/ ~IsDelim(k)
                 /\ \A l \in i..(k - 1) : IsDelim(l)
        e == CHOOSE k \in b..(Len(text) + 1) :
                 /\ k = Len(text) + 1 \/ IsDelim(k)
                 /\ \A l \in b..(k - 1) : ~IsDelim(l)
    IN IF b > Len(text) THEN <<>>
       ELSE <<SubSeq(text, b, e - 1)>> \o strtok_lines(text, e)

\* the index of the first character from i on that is not a space
RECURSIVE skip_blanks(_, _)
skip_blanks(text, i) ==
    IF i <= Len(text) /\ SubSeq(text, i, i) = " " THEN skip_blanks(text, i + 1)
    ELSE i

\* the header loop over the strtok tokens: stop at an empty token or at
\* CREST_MAX_HEADERS headers, store a token that holds a colon
RECURSIVE header_loop(_, _)
header_loop(lines, headers) ==
    IF lines = <<>> \/ Len(headers) >= CREST_MAX_HEADERS THEN headers
    ELSE IF Len(Head(lines)) = 0 THEN headers
    ELSE LET line == Head(lines)
             colon == strchr_at(line, ":")
         IN IF colon # 0
            THEN header_loop(Tail(lines),
                     Append(headers,
                         [key |-> SubSeq(line, 1, colon - 1),
                          value |-> SubSeq(line, skip_blanks(line, colon + 1),
                                           Len(line))]))
            ELSE header_loop(Tail(lines), headers)

\* the headers parse_request stores: the loop runs on the text behind the
\* first "\n"
parse_headers(raw) ==
    LET header_start == strchr_at(raw, "\n")
    IN IF header_start # 0
       THEN header_loop(strtok_lines(raw, header_start + 1), <<>>)
       ELSE <<>>

\* the body parse_request stores: the text behind the first "\r\n\r\n", NULL
\* when there is none or it is empty
parse_body(raw) ==
    LET body_start == strstr_at(raw, "\r\n\r\n")
    IN IF body_start # 0 /\ body_start + 4 <= Len(raw)
       THEN SubSeq(raw, body_start + 4, Len(raw))
       ELSE NULLTXT

\* parse_request on the text read: <<>> for NULL, else the request. The query
\* parameters take no part in what follows and are left out of the record.
parse_request(raw) ==
    LET tokens == sscanf_s(raw, 1, <<15, 511, 15>>)
    IN IF Len(tokens) # 3 THEN <<>>
       ELSE <<[method |-> parse_method(tokens[1]),
               path |-> path_before_query(Chars(tokens[2])),
               path_params |-> <<>>,
               headers |-> parse_headers(raw),
               body |-> parse_body(raw)]>>

\* crest_request_param: the value of the first entry with this key, or NULL
crest_request_param(request, key) ==
    IF \E i \in 1..Len(request.path_params) : request.path_params[i].key = key
    THEN LET i == CHOOSE k \in 1..Len(request.path_params) :
                      /\ request.path_params[k].key = key
                      /\ \A l \in 1..(k - 1) : request.path_params[l].key # key
         IN request.path_params[i].value
    ELSE NULLSTR

(***************************************************************************)
(* find_route as handle_connection calls it, and the request it leaves     *)
(***************************************************************************)
\* crest_request_t temp_req = {0}: the parameter list the probe writes into
temp_req == <<>>

\* a probe that writes into the request being served
after_probe_shared(request_params, probe_params) == probe_params

\* the request's parameter list after a probe that wrote probe_params into
\* temp_req: temp_req goes out of scope, the request is not touched
after_probe(request_params, probe_params) == request_params

\* the request's parameter list when find_route returns, the loop being at
\* index i
RECURSIVE find_route_params(_, _, _, _, _)
find_route_params(app, method, path, i, params) ==
    IF i >= app.route_count THEN params
    ELSE IF app.routes[i].method # method
    THEN find_route_params(app, method, path, i + 1, params)
    ELSE IF app.routes[i].is_pattern
    THEN LET r == match_route_pattern(app.routes[i].path, path, temp_req)
             kept == after_probe(params, r.params)
         IN IF r.ok THEN kept
            ELSE find_route_params(app, method, path, i + 1, kept)
    ELSE IF app.routes[i].path = path THEN params
    ELSE find_route_params(app, method, path, i + 1, params)

(***************************************************************************)
(* send_response                                                           *)
(***************************************************************************)
status_text(status_code) ==
    CASE status_code = 200 -> "OK"
      [] status_code = 201 -> "Created"
      [] status_code = 204 -> "No Content"
      [] status_code = 400 -> "Bad Request"
      [] status_code = 401 -> "Unauthorized"
      [] status_code = 403 -> "Forbidden"
      [] status_code = 404 -> "Not Found"
      [] status_code = 500 -> "Internal Server Error"
      [] OTHER -> "OK"

\* what send_response passes to send(): the status line (and the number it
\* printed there), the header lines, the Content-Length line and the body
send_response(r) ==
    [status_code |-> r.status_code,
     status_line |-> snprintf(128, "HTTP/1.1 " \o ToString(r.status_code) \o " "
                                   \o status_text(r.status_code) \o "\r\n"),
     header_lines |-> [i \in 1..Len(r.headers) |->
                          snprintf(512, r.headers[i].key \o ": "
                                        \o r.headers[i].value \o "\r\n")],
     content_length |-> IF r.body # NULLTXT
                        THEN snprintf(64, "Content-Length: "
                                          \o ToString(r.body_len) \o "\r\n")
                        ELSE "",
     body |-> IF r.body # NULLTXT THEN SubSeq(r.body, 1, r.body_len) ELSE ""]

(***************************************************************************)
(* The application served: its tables, middleware and handlers             *)
(***************************************************************************)
PathA == <<"/", "a">>
PathAId == <<"/", "a", "/", ":", "i", "d">>
PathXB == <<"/", ":", "x", "/", "b">>
PathAColonB == <<"/", "a", ":", "b">>
PathAStar == <<"/", "a", "/", "*">>

\* an application that registered nothing
AppEmpty == crest_create

\* GET /:x/b, GET /a/:id, POST /a behind two middleware
AppParams ==
    crest_use(
        crest_use(
            crest_post(
                crest_get(
                    crest_get(crest_create, PathXB, "h1", NULLSTR),
                    PathAId, "h2", <<"d">>),
                PathA, "h1", NULLSTR),
            "m1"),
        "m2")

\* GET /a:b, GET /a/* behind one middleware
AppWildcard ==
    crest_use(
        crest_get(
            crest_get(crest_create, PathAColonB, "h1", NULLSTR),
            PathAStar, "h2", NULLSTR),
        "m1")

ServerApps == {AppEmpty, AppParams, AppWildcard}

\* what a middleware or a handler does to the response through the response
\* API, and what a middleware returns
NoEffect ==
    [status |-> 0, key |-> NULLTXT, value |-> NULLTXT, body |-> NULLTXT,
     json |-> FALSE, ret |-> TRUE]

\* a middleware that only looks (logger), one that adds a header and passes
\* (cors), one that answers 401 with a JSON body (auth), and one that serves
\* a file without setting a status (static)
MiddlewareEffects ==
    {NoEffect,
     [NoEffect EXCEPT !.key = "Access-Control-Allow-Origin", !.value = "*"],
     [NoEffect EXCEPT !.status = CREST_STATUS_UNAUTHORIZED,
                      !.body = "{\"error\":\"Invalid token\"}", !.json = TRUE,
                      !.ret = FALSE],
     [NoEffect EXCEPT !.key = "content-type", !.value = "text/html",
                      !.body = "<html></html>", !.ret = FALSE]}

\* a handler that writes a JSON body, with or without a status
HandlerEffects ==
    {[NoEffect EXCEPT !.body = "{\"status\":\"ok\"}", !.json = TRUE],
     [NoEffect EXCEPT !.status = CREST_STATUS_CREATED,
                      !.body = "{\"id\":1}", !.json = TRUE]}

\* the calls of the response API an effect stands for
apply_effect(r, e) ==
    LET r1 == IF e.status # 0 THEN crest_response_status(r, e.status) ELSE r
        r2 == IF e.key # NULLTXT THEN crest_response_header(r1, e.key, e.value) ELSE r1
    IN IF e.body = NULLTXT THEN r2
       ELSE IF e.json THEN crest_response_json(r2, e.body)
       ELSE crest_response_send(r2, e.body)

\* the paths clients ask for
RequestLinePaths == {"/a", "/a/ab", "/a/b", "/ab", "/a/", "/b"}

\* the texts clients send: a request line and the empty line; requests with
\* headers, with and without a body; a request line without version, alone
\* and followed by a header; an empty line only; and a request line whose
\* method token is no HTTP verb of crest_method_t
RequestLines ==
    {m \o " " \o p \o " HTTP/1.1\r\n\r\n" : m \in {"GET", "POST"}, p \in RequestLinePaths}
        \cup {"GET /a HTTP/1.1\r\nHost: x\r\nAccept: */*\r\n\r\n",
              "POST /a HTTP/1.1\r\nHost: x\r\n\r\nhello",
              "POST /a HTTP/1.1\r\nHost: x\r\n\r\n{\"a\":1}",
              "GET /a",
              "GET /a\r\nHost: x\r\n\r\n",
              "\r\n",
              "BREW /a/b HTTP/1.1\r\n\r\n"}

\* what recv returned: no bytes, or the bytes of a request
Received ==
    {[bytes_read |-> 0, raw |-> ""]}
        \cup {[bytes_read |-> Len(l), raw |-> l] : l \in RequestLines}

(***************************************************************************)
(* crest_run and handle_connection as actions                              *)
(***************************************************************************)
\* crest_run is about to be called: no socket, no connection
InitConn ==
    /\ hpc = "create_socket"
    /\ running = FALSE
    /\ run_ret = <<>>
    /\ failed_call = "none"
    /\ client_fd = <<>>
    /\ recvd = <<>>
    /\ req = NoRequest
    /\ res = create_response
    /\ mi = 0
    /\ middleware_passed = TRUE
    /\ route_found = -1
    /\ calls = <<>>
    /\ halted = <<>>
    /\ written = <<>>

\* crest_run is called on one of the applications
InitServer ==
    \E a \in ServerApps :
        /\ routes = a.routes
        /\ route_count = a.route_count
        /\ middleware = a.middleware
        /\ middleware_count = a.middleware_count
        /\ lastCall = NoCall

\* an entry of calls: the callee, what it returned, and the status it set
\* through crest_response_status (0 when it set none)
Call(fn, index, function, ret, status) ==
    [fn |-> fn, index |-> index, function |-> function, ret |-> ret,
     status |-> status]

\* the system calls of create_socket, any of which can fail
SocketCalls == <<"socket", "setsockopt", "bind", "listen">>

\* a create_socket that returns the descriptor although listen failed
create_socket_ignore_listen(failed) ==
    IF failed \in {"socket", "setsockopt", "bind"} THEN -1 ELSE 3

\* create_socket: -1 when the call named failed, the descriptor when none did
create_socket(failed) ==
    IF \E k \in 1..Len(SocketCalls) : SocketCalls[k] = failed THEN -1 ELSE 3

\* crest_run up to its loop
CreateSocket ==
    /\ hpc = "create_socket"
    /\ \E failed \in {"none", "socket", "setsockopt", "bind", "listen"} :
          LET server_fd == create_socket(failed)
          IN /\ failed_call' = failed
             /\ IF server_fd < 0
                THEN /\ run_ret' = <<-1>>
                     /\ hpc' = "returned"
                     /\ UNCHANGED running
                ELSE /\ running' = TRUE
                     /\ hpc' = "accept"
                     /\ UNCHANGED run_ret
    /\ UNCHANGED <<poolVars, routerVars, probe, restVars, client_fd, recvd, req, res, mi,
                   middleware_passed, route_found, calls, halted, written>>

\* while (app->running): accept; if (client_fd < 0) continue;
AcceptConnection ==
    /\ hpc = "accept"
    /\ running
    /\ \E fd \in {-1, 4} :
          /\ client_fd' = <<fd>>
          /\ hpc' = IF fd < 0 THEN "accept" ELSE "recv"
    /\ UNCHANGED <<poolVars, routerVars, probe, restVars, running, run_ret, failed_call, recvd, req, res, mi,
                   middleware_passed, route_found, calls, halted, written>>

\* where handle_connection goes on after parse_request and create_response
after_parse(count) == IF 0 < count THEN "middleware" ELSE "find"

\* handle_connection: recv, parse_request, create_response, up to the
\* middleware loop
ReceiveRequest ==
    /\ hpc = "recv"
    /\ \E r \in Received :
          /\ recvd' = <<r>>
          /\ IF r.bytes_read <= 0 \/ parse_request(r.raw) = <<>>
             THEN /\ hpc' = "close"
                  /\ UNCHANGED <<req, res>>
             ELSE /\ req' = parse_request(r.raw)[1]
                  /\ res' = create_response
                  /\ hpc' = after_parse(middleware_count)
    /\ UNCHANGED <<poolVars, routerVars, probe, restVars, running, run_ret, failed_call, client_fd, mi,
                   middleware_passed, route_found, calls, halted, written>>

\* a loop that does not look at what the middleware returned
middleware_step_no_break(ret, i, count) ==
    [passed |-> TRUE, i |-> i + 1,
     pc |-> IF i + 1 < count THEN "middleware" ELSE "find"]

\* the middleware loop after middleware i returned ret: break, go on with
\* i + 1, or leave the loop
middleware_step(ret, i, count) ==
    IF ~ret THEN [passed |-> FALSE, i |-> i, pc |-> "send"]
    ELSE [passed |-> TRUE, i |-> i + 1,
          pc |-> IF i + 1 < count THEN "middleware" ELSE "find"]

\* app->middleware[i].handler(req, res)
RunMiddleware ==
    /\ hpc = "middleware"
    /\ \E e \in MiddlewareEffects :
          LET r == apply_effect(res, e)
              step == middleware_step(e.ret, mi, middleware_count)
          IN /\ res' = r
             /\ calls' = Append(calls, Call("middleware", mi, middleware[mi].handler,
                                            e.ret, e.status))
             /\ halted' = IF e.ret THEN halted ELSE <<r>>
             /\ middleware_passed' = step.passed
             /\ mi' = step.i
             /\ hpc' = step.pc
    /\ UNCHANGED <<poolVars, routerVars, probe, restVars, running, run_ret, failed_call, client_fd, recvd,
                   req, route_found, written>>

\* crest_route_t *route = find_route(app, req->method, req->path)
FindRoute ==
    /\ hpc = "find"
    /\ route_found' = find_route(App, req.method, req.path)
    /\ req' = [req EXCEPT !.path_params =
                              find_route_params(App, req.method, req.path, 0, @)]
    /\ calls' = Append(calls, Call("find_route", route_found', NULLFN, TRUE, 0))
    /\ hpc' = "handle"
    /\ UNCHANGED <<poolVars, routerVars, probe, restVars, running, run_ret, failed_call, client_fd, recvd,
                   res, mi, middleware_passed, halted,
                   written>>

\* the request after "if (route->is_pattern) match_route_pattern(...)"
extract_params(rt, request) ==
    IF rt.is_pattern
    THEN [request EXCEPT !.path_params =
                             match_route_pattern(rt.path, request.path, @).params]
    ELSE request

\* if (route): extract the parameters, route->handler(req, res)
HandleRoute ==
    /\ hpc = "handle"
    /\ route_found # -1
    /\ req' = extract_params(routes[route_found], req)
    /\ \E e \in HandlerEffects :
          /\ res' = apply_effect(res, e)
          /\ calls' = Append(calls, Call("handler", route_found,
                                         routes[route_found].handler, TRUE, e.status))
    /\ hpc' = "send"
    /\ UNCHANGED <<poolVars, routerVars, probe, restVars, running, run_ret, failed_call, client_fd, recvd,
                   mi, middleware_passed, route_found, halted,
                   written>>

\* a 404 branch that forgets the status
not_found_no_status(app, request, r) ==
    CHOOSE answer \in
        {crest_response_json(r, detailed_error) :
            detailed_error \in {generate_detailed_404_error(app, request)}} : TRUE

\* else: the 404 response; detailed_error is the local of that name
not_found(app, request, r) ==
    CHOOSE answer \in
        {crest_response_json(crest_response_status(r, CREST_STATUS_NOT_FOUND),
                             detailed_error) :
            detailed_error \in {generate_detailed_404_error(app, request)}} : TRUE

NotFound ==
    /\ hpc = "handle"
    /\ route_found = -1
    /\ res' = not_found(App, req, res)
    /\ hpc' = "send"
    /\ UNCHANGED <<poolVars, routerVars, probe, restVars, running, run_ret, failed_call, client_fd, recvd,
                   req, mi, middleware_passed, route_found,
                   calls, halted, written>>

\* a server that sets 200 whatever the status is
default_status_always(r) == [r EXCEPT !.status_code = CREST_STATUS_OK]

\* a server without the default
default_status_none(r) == r

\* if (res->status_code == 0) res->status_code = CREST_STATUS_OK
default_status(r) ==
    IF r.status_code = 0 THEN [r EXCEPT !.status_code = CREST_STATUS_OK] ELSE r

\* a server that writes again after it wrote
after_send_again == "send"

\* after send_response: free_request, free_response and return
after_send == "close"

\* the default status and send_response
SendResponse ==
    /\ hpc = "send"
    /\ res' = default_status(res)
    /\ written' = Append(written, send_response(res'))
    /\ hpc' = after_send
    /\ UNCHANGED <<poolVars, routerVars, probe, restVars, running, run_ret, failed_call, client_fd, recvd,
                   req, mi, middleware_passed, route_found,
                   calls, halted>>

\* free_request, free_response, return to crest_run, close(client_fd), and
\* back to accept
CloseConnection ==
    /\ hpc = "close"
    /\ hpc' = "accept"
    /\ req' = NoRequest
    /\ res' = create_response
    /\ mi' = 0
    /\ middleware_passed' = TRUE
    /\ route_found' = -1
    /\ calls' = <<>>
    /\ halted' = <<>>
    /\ written' = <<>>
    /\ client_fd' = <<>>
    /\ recvd' = <<>>
    /\ UNCHANGED <<poolVars, routerVars, probe, restVars, running, run_ret, failed_call>>

NextServer ==
    \/ CreateSocket
    \/ AcceptConnection
    \/ ReceiveRequest
    \/ RunMiddleware
    \/ FindRoute
    \/ HandleRoute
    \/ NotFound
    \/ SendResponse
    \/ CloseConnection

(***************************************************************************)
(* The response API called by a handler, call after call                   *)
(***************************************************************************)
\* the number of calls a handler makes on its response
MaxApiCalls == 3

\* crest_response_sendf on the text its format and arguments expand to:
\* vsnprintf into buffer[4096], then crest_response_send
crest_response_sendf(r, text) ==
    IF text = NULLTXT THEN r ELSE crest_response_send(r, snprintf(4096, text))

NoApi == [fn |-> "none", arg |-> NULLTXT, before |-> create_response]

\* crest_response_t response = {0}
InitApi ==
    /\ response = create_response
    /\ napi = 0
    /\ lastApi = NoApi

ApiStatus ==
    /\ napi < MaxApiCalls
    /\ \E status \in {CREST_STATUS_OK, CREST_STATUS_NOT_FOUND} :
          /\ response' = crest_response_status(response, status)
          /\ lastApi' = [fn |-> "crest_response_status", arg |-> ToString(status), before |-> response]
    /\ napi' = napi + 1
    /\ UNCHANGED <<poolVars, routerVars, probe, serverVars, jsonVars, pooledVars,
                   cppPoolVars, httpVars, bodyVars, cppRouteVars>>

ApiHeader ==
    /\ napi < MaxApiCalls
    /\ \E h \in {<<"Content-Type", "text/html">>, <<"X-Request-Id", "1">>} :
          /\ response' = crest_response_header(response, h[1], h[2])
          /\ lastApi' = [fn |-> "crest_response_header", arg |-> h[1], before |-> response]
    /\ napi' = napi + 1
    /\ UNCHANGED <<poolVars, routerVars, probe, serverVars, jsonVars, pooledVars,
                   cppPoolVars, httpVars, bodyVars, cppRouteVars>>

ApiSend ==
    /\ napi < MaxApiCalls
    /\ \E body \in {"Hello World", "bye"} :
          /\ response' = crest_response_send(response, body)
          /\ lastApi' = [fn |-> "crest_response_send", arg |-> body, before |-> response]
    /\ napi' = napi + 1
    /\ UNCHANGED <<poolVars, routerVars, probe, serverVars, jsonVars, pooledVars,
                   cppPoolVars, httpVars, bodyVars, cppRouteVars>>

ApiJson ==
    /\ napi < MaxApiCalls
    /\ \E json \in {"{\"message\": \"ok\"}"} :
          /\ response' = crest_response_json(response, json)
          /\ lastApi' = [fn |-> "crest_response_json", arg |-> json, before |-> response]
    /\ napi' = napi + 1
    /\ UNCHANGED <<poolVars, routerVars, probe, serverVars, jsonVars, pooledVars,
                   cppPoolVars, httpVars, bodyVars, cppRouteVars>>

ApiSendf ==
    /\ napi < MaxApiCalls
    /\ \E text \in {"n=1"} :
          /\ response' = crest_response_sendf(response, text)
          /\ lastApi' = [fn |-> "crest_response_sendf", arg |-> text, before |-> response]
    /\ napi' = napi + 1
    /\ UNCHANGED <<poolVars, routerVars, probe, serverVars, jsonVars, pooledVars,
                   cppPoolVars, httpVars, bodyVars, cppRouteVars>>

NextApi ==
    \/ ApiStatus
    \/ ApiHeader
    \/ ApiSend
    \/ ApiJson
    \/ ApiSendf

(***************************************************************************)
(* The JSON engine (src/src/utils/json.c)                                  *)
(*                                                                         *)
(* A text is a sequence of characters. A control character that TLA+       *)
(* cannot write is named by its byte: "0x01", "0x08".                      *)
(***************************************************************************)
\* the byte 0x01, a control character without a short escape
SOH == "0x01"
\* the byte 0x08, '\b'
BS == "0x08"

\* (unsigned char)c < 32, for the characters the texts hold
IsControl(c) == c \in {SOH, BS, "\t", "\n", "\f", "\r"}

\* what "%04x" prints for a control character
Hex04(c) ==
    CASE c = SOH -> <<"0", "0", "0", "1">>
      [] c = BS -> <<"0", "0", "0", "8">>
      [] c = "\t" -> <<"0", "0", "0", "9">>
      [] c = "\n" -> <<"0", "0", "0", "a">>
      [] c = "\f" -> <<"0", "0", "0", "c">>
      [] c = "\r" -> <<"0", "0", "0", "d">>

\* struct crest_json_value: the tag and the members of the union. A number
\* is held as a count of quarters, which is exact for the numbers the texts
\* hold (integers and fractions .25, .5, .75).
JsonValue(type, bool_val, number_val, string_val, keys, values, items) ==
    [type |-> type, bool_val |-> bool_val, number_val |-> number_val,
     string_val |-> string_val, keys |-> keys, values |-> values, items |-> items]

crest_json_null == JsonValue("null", FALSE, 0, <<>>, <<>>, <<>>, <<>>)
crest_json_bool(value) == JsonValue("bool", value, 0, <<>>, <<>>, <<>>, <<>>)
crest_json_number(value) == JsonValue("number", FALSE, value, <<>>, <<>>, <<>>, <<>>)
crest_json_string(value) == JsonValue("string", FALSE, 0, value, <<>>, <<>>, <<>>)
crest_json_array == JsonValue("array", FALSE, 0, <<>>, <<>>, <<>>, <<>>)
crest_json_object == JsonValue("object", FALSE, 0, <<>>, <<>>, <<>>, <<>>)

\* an object that appends the value although the key is there
crest_json_set_append(obj, key, value) ==
    IF obj.type # "object" THEN obj
    ELSE [obj EXCEPT !.keys = Append(@, key), !.values = Append(@, value)]

\* crest_json_set: the value at the position of the key when the object has
\* the key, a new pair at the end when it has not
crest_json_set(obj, key, value) ==
    IF obj.type # "object" THEN obj
    ELSE IF \E i \in 1..Len(obj.keys) : obj.keys[i] = key
    THEN LET i == CHOOSE k \in 1..Len(obj.keys) :
                      obj.keys[k] = key /\ \A l \in 1..(k - 1) : obj.keys[l] # key
         IN [obj EXCEPT !.values[i] = value]
    ELSE [obj EXCEPT !.keys = Append(@, key), !.values = Append(@, value)]

crest_json_array_add(arr, value) ==
    IF arr.type # "array" THEN arr ELSE [arr EXCEPT !.items = Append(@, value)]

\* what a parse function returns: NULL (<<>>) or a value, and parser->pos
\* (counted from 1)
ParseFail(pos) == [val |-> <<>>, pos |-> pos]
ParseOk(value, pos) == [val |-> <<value>>, pos |-> pos]

\* skip_whitespace: the position behind the white space at pos
RECURSIVE skip_whitespace(_, _)
skip_whitespace(input, pos) ==
    IF pos <= Len(input) /\ input[pos] \in {" ", "\t", "\n", "\r"}
    THEN skip_whitespace(input, pos + 1)
    ELSE pos

\* the character an escape sequence stands for, <<>> when parse_string
\* rejects it: \u and every character that is no escape
Unescape(escaped) ==
    CASE escaped = "\"" -> <<"\"">>
      [] escaped = "\\" -> <<"\\">>
      [] escaped = "/" -> <<"/">>
      [] escaped = "b" -> <<BS>>
      [] escaped = "f" -> <<"\f">>
      [] escaped = "n" -> <<"\n">>
      [] escaped = "r" -> <<"\r">>
      [] escaped = "t" -> <<"\t">>
      [] OTHER -> <<>>

\* the loop of parse_string behind the opening quote
RECURSIVE parse_string_loop(_, _, _)
parse_string_loop(input, pos, result) ==
    IF pos > Len(input) THEN ParseFail(pos)
    ELSE IF input[pos] = "\"" THEN ParseOk(result, pos + 1)
    ELSE IF input[pos] = "\\"
    THEN IF pos + 1 > Len(input) THEN ParseFail(pos + 1)
         ELSE IF Unescape(input[pos + 1]) = <<>> THEN ParseFail(pos + 1)
         ELSE parse_string_loop(input, pos + 2,
                                Append(result, Unescape(input[pos + 1])[1]))
    ELSE parse_string_loop(input, pos + 1, Append(result, input[pos]))

parse_string(input, pos) ==
    IF pos > Len(input) \/ input[pos] # "\"" THEN ParseFail(pos)
    ELSE parse_string_loop(input, pos + 1, <<>>)

Digits == <<"0", "1", "2", "3", "4", "5", "6", "7", "8", "9">>
isdigit(c) == \E d \in 1..10 : Digits[d] = c
DigitValue(c) == (CHOOSE d \in 1..10 : Digits[d] = c) - 1

\* the position behind the digits at pos
RECURSIVE skip_digits(_, _)
skip_digits(input, pos) ==
    IF pos <= Len(input) /\ isdigit(input[pos]) THEN skip_digits(input, pos + 1)
    ELSE pos

\* the number a run of digits writes
RECURSIVE DigitsValue(_, _)
DigitsValue(digits, acc) ==
    IF digits = <<>> THEN acc
    ELSE DigitsValue(Tail(digits), 10 * acc + DigitValue(Head(digits)))

RECURSIVE Pow10(_)
Pow10(n) == IF n = 0 THEN 1 ELSE 10 * Pow10(n - 1)

\* strtod on a literal that parse_number scanned, in quarters: sign, integer
\* digits, fraction digits and exponent. The division is exact for the
\* literals of the texts.
strtod(literal) ==
    LET neg == literal # <<>> /\ Head(literal) = "-"
        body == IF neg THEN Tail(literal) ELSE literal
        int_end == skip_digits(body, 1)
        has_frac == int_end <= Len(body) /\ body[int_end] = "."
        frac_end == IF has_frac THEN skip_digits(body, int_end + 1) ELSE int_end
        frac == IF has_frac THEN SubSeq(body, int_end + 1, frac_end - 1) ELSE <<>>
        has_exp == frac_end <= Len(body)
        exp_neg == has_exp /\ body[frac_end + 1] = "-"
        exp_from == IF has_exp /\ body[frac_end + 1] \in {"+", "-"}
                    THEN frac_end + 2 ELSE frac_end + 1
        exp == IF has_exp THEN DigitsValue(SubSeq(body, exp_from, Len(body)), 0)
               ELSE 0
        mantissa == DigitsValue(SubSeq(body, 1, int_end - 1) \o frac, 0)
        up == IF exp_neg THEN 0 ELSE exp
        down == Len(frac) + (IF exp_neg THEN exp ELSE 0)
        quarters == (4 * mantissa * Pow10(up)) \div Pow10(down)
    IN IF neg THEN 0 - quarters ELSE quarters

\* parse_number: the scan of the RFC 8259 number grammar, then strtod
parse_number(input, pos) ==
    LET start == pos
        p1 == IF pos <= Len(input) /\ input[pos] = "-" THEN pos + 1 ELSE pos
        int_ok == p1 <= Len(input) /\ isdigit(input[p1])
        p2 == IF input[p1] = "0" THEN p1 + 1 ELSE skip_digits(input, p1)
        has_frac == p2 <= Len(input) /\ input[p2] = "."
        frac_ok == p2 + 1 <= Len(input) /\ isdigit(input[p2 + 1])
        p3 == IF has_frac THEN skip_digits(input, p2 + 1) ELSE p2
        has_exp == p3 <= Len(input) /\ input[p3] \in {"e", "E"}
        p4 == IF p3 + 1 <= Len(input) /\ input[p3 + 1] \in {"+", "-"}
              THEN p3 + 2 ELSE p3 + 1
        exp_ok == p4 <= Len(input) /\ isdigit(input[p4])
        p5 == IF has_exp THEN skip_digits(input, p4) ELSE p3
    IN IF ~int_ok THEN ParseFail(p1)
       ELSE IF has_frac /\ ~frac_ok THEN ParseFail(p2 + 1)
       ELSE IF has_exp /\ ~exp_ok THEN ParseFail(p4)
       ELSE ParseOk(crest_json_number(strtod(SubSeq(input, start, p5 - 1))), p5)

\* parse_literal
parse_literal(input, pos, literal, value) ==
    IF pos + Len(literal) - 1 > Len(input) THEN ParseFail(pos)
    ELSE IF SubSeq(input, pos, pos + Len(literal) - 1) # literal THEN ParseFail(pos)
    ELSE ParseOk(value, pos + Len(literal))

RECURSIVE parse_value(_, _)
RECURSIVE parse_array_loop(_, _, _)
RECURSIVE parse_object_loop(_, _, _)

\* the while loop of parse_array, arr being the array built so far
parse_array_loop(input, pos, arr) ==
    IF pos > Len(input) THEN ParseFail(pos)
    ELSE LET value == parse_value(input, pos)
         IN IF value.val = <<>> THEN ParseFail(value.pos)
            ELSE LET arr1 == crest_json_array_add(arr, value.val[1])
                     p == skip_whitespace(input, value.pos)
                 IN IF p > Len(input) THEN ParseFail(p)
                    ELSE IF input[p] = "]" THEN ParseOk(arr1, p + 1)
                    ELSE IF input[p] = ","
                    THEN parse_array_loop(input, skip_whitespace(input, p + 1), arr1)
                    ELSE ParseFail(p)

parse_array(input, pos) ==
    IF pos > Len(input) \/ input[pos] # "[" THEN ParseFail(pos)
    ELSE LET p == skip_whitespace(input, pos + 1)
         IN IF p <= Len(input) /\ input[p] = "]"
            THEN ParseOk(crest_json_array, p + 1)
            ELSE parse_array_loop(input, p, crest_json_array)

\* the while loop of parse_object, obj being the object built so far
parse_object_loop(input, pos, obj) ==
    IF pos > Len(input) THEN ParseFail(pos)
    ELSE LET k == skip_whitespace(input, pos)
             key == parse_string(input, k)
             c == skip_whitespace(input, key.pos)
             value == parse_value(input, skip_whitespace(input, c + 1))
             obj1 == crest_json_set(obj, key.val[1], value.val[1])
             p == skip_whitespace(input, value.pos)
         IN IF k > Len(input) \/ input[k] # "\"" THEN ParseFail(k)
            ELSE IF key.val = <<>> THEN ParseFail(key.pos)
            ELSE IF c > Len(input) \/ input[c] # ":" THEN ParseFail(c)
            ELSE IF value.val = <<>> THEN ParseFail(value.pos)
            ELSE IF p > Len(input) THEN ParseFail(p)
            ELSE IF input[p] = "}" THEN ParseOk(obj1, p + 1)
            ELSE IF input[p] = "," THEN parse_object_loop(input, p + 1, obj1)
            ELSE ParseFail(p)

parse_object(input, pos) ==
    IF pos > Len(input) \/ input[pos] # "{" THEN ParseFail(pos)
    ELSE LET p == skip_whitespace(input, pos + 1)
         IN IF p <= Len(input) /\ input[p] = "}"
            THEN ParseOk(crest_json_object, p + 1)
            ELSE parse_object_loop(input, p, crest_json_object)

parse_value(input, pos) ==
    LET p == skip_whitespace(input, pos)
    IN IF p > Len(input) THEN ParseFail(p)
       ELSE CASE input[p] = "{" -> parse_object(input, p)
              [] input[p] = "[" -> parse_array(input, p)
              [] input[p] = "\"" ->
                    LET str == parse_string(input, p)
                    IN IF str.val = <<>> THEN ParseFail(str.pos)
                       ELSE ParseOk(crest_json_string(str.val[1]), str.pos)
              [] input[p] = "t" ->
                    parse_literal(input, p, <<"t", "r", "u", "e">>, crest_json_bool(TRUE))
              [] input[p] = "f" ->
                    parse_literal(input, p, <<"f", "a", "l", "s", "e">>,
                                  crest_json_bool(FALSE))
              [] input[p] = "n" ->
                    parse_literal(input, p, <<"n", "u", "l", "l">>, crest_json_null)
              [] input[p] = "-" \/ isdigit(input[p]) -> parse_number(input, p)
              [] OTHER -> ParseFail(p)

\* a parser that returns the value whatever follows it
crest_json_parse_prefix(json) == parse_value(json, 1).val

\* crest_json_parse: NULL (<<>>) or the value; text behind the value other
\* than white space makes it NULL
crest_json_parse(json) ==
    LET value == parse_value(json, 1)
    IN IF value.val = <<>> THEN <<>>
       ELSE IF skip_whitespace(json, value.pos) <= Len(json) THEN <<>>
       ELSE value.val

\* the decimal digits of a natural number
RECURSIVE IntText(_)
IntText(n) ==
    IF n < 10 THEN <<Digits[n + 1]>>
    ELSE IntText(n \div 10) \o <<Digits[(n % 10) + 1]>>

\* what "%lld" prints
PrintLld(n) == IF n < 0 THEN <<"-">> \o IntText(0 - n) ELSE IntText(n)

\* what "%.17g" prints for a number of quarters that is no integer
Print17g(quarters) ==
    LET abs == IF quarters < 0 THEN 0 - quarters ELSE quarters
        frac == CASE abs % 4 = 1 -> <<"2", "5">>
                  [] abs % 4 = 2 -> <<"5">>
                  [] abs % 4 = 3 -> <<"7", "5">>
    IN (IF quarters < 0 THEN <<"-">> ELSE <<>>)
       \o IntText(abs \div 4) \o <<".">> \o frac

\* the number case of crest_json_stringify
stringify_number(quarters) ==
    IF quarters % 4 = 0 THEN PrintLld(quarters \div 4) ELSE Print17g(quarters)

\* the characters escape_string writes for one character, and how many
\* bytes it moves pos by. The "\u%04x" of a control character goes through
\* snprintf(result + pos, capacity - pos, ...): it writes at most
\* capacity - pos - 1 characters and a NUL, and pos moves by 6 all the same.
EscapeOf(c, room) ==
    CASE c = "\"" -> [text |-> <<"\\", "\"">>, bytes |-> 2, cut |-> FALSE]
      [] c = "\\" -> [text |-> <<"\\", "\\">>, bytes |-> 2, cut |-> FALSE]
      [] c = BS -> [text |-> <<"\\", "b">>, bytes |-> 2, cut |-> FALSE]
      [] c = "\f" -> [text |-> <<"\\", "f">>, bytes |-> 2, cut |-> FALSE]
      [] c = "\n" -> [text |-> <<"\\", "n">>, bytes |-> 2, cut |-> FALSE]
      [] c = "\r" -> [text |-> <<"\\", "r">>, bytes |-> 2, cut |-> FALSE]
      [] c = "\t" -> [text |-> <<"\\", "t">>, bytes |-> 2, cut |-> FALSE]
      [] OTHER ->
            IF IsControl(c)
            THEN LET full == <<"\\", "u">> \o Hex04(c)
                 IN IF room >= 7
                    THEN [text |-> full, bytes |-> 6, cut |-> FALSE]
                    ELSE [text |-> SubSeq(full, 1, room - 1), bytes |-> 6,
                          cut |-> TRUE]
            ELSE [text |-> <<c>>, bytes |-> 1, cut |-> FALSE]

\* the loop of escape_string at character i: result holds the characters
\* written, pos and capacity are the locals of that name. A NUL written by a
\* truncating snprintf ends the C string the function returns.
RECURSIVE escape_loop(_, _, _, _, _)
escape_loop(str, i, result, pos, capacity) ==
    IF i > Len(str) THEN result \o <<"\"">>
    ELSE LET e == EscapeOf(str[i], capacity - pos)
             pos1 == pos + e.bytes
             capacity1 == IF pos1 + 10 >= capacity THEN capacity * 2 ELSE capacity
         IN IF e.cut THEN result \o e.text
            ELSE escape_loop(str, i + 1, result \o e.text, pos1, capacity1)

\* escape_string: capacity = len * 2 + 3, the opening quote at pos 0
escape_string(str) == escape_loop(str, 1, <<"\"">>, 1, Len(str) * 2 + 3)

RECURSIVE crest_json_stringify(_)
RECURSIVE stringify_items(_, _)
RECURSIVE stringify_pairs(_, _)

\* the loop of the array case from item i on
stringify_items(value, i) ==
    IF i > Len(value.items) THEN <<>>
    ELSE (IF i > 1 THEN <<",">> ELSE <<>>)
         \o crest_json_stringify(value.items[i]) \o stringify_items(value, i + 1)

\* the loop of the object case from pair i on
stringify_pairs(value, i) ==
    IF i > Len(value.keys) THEN <<>>
    ELSE (IF i > 1 THEN <<",">> ELSE <<>>)
         \o escape_string(value.keys[i]) \o <<":">>
         \o crest_json_stringify(value.values[i]) \o stringify_pairs(value, i + 1)

crest_json_stringify(value) ==
    CASE value.type = "null" -> <<"n", "u", "l", "l">>
      [] value.type = "bool" ->
            IF value.bool_val THEN <<"t", "r", "u", "e">>
            ELSE <<"f", "a", "l", "s", "e">>
      [] value.type = "number" -> stringify_number(value.number_val)
      [] value.type = "string" -> escape_string(value.string_val)
      [] value.type = "array" ->
            IF Len(value.items) = 0 THEN <<"[", "]">>
            ELSE <<"[">> \o stringify_items(value, 1) \o <<"]">>
      [] value.type = "object" ->
            IF Len(value.keys) = 0 THEN <<"{", "}">>
            ELSE <<"{">> \o stringify_pairs(value, 1) \o <<"}">>

(***************************************************************************)
(* The texts parsed, and the calls made on what they parse to              *)
(***************************************************************************)
\* texts of the grammar
ValidTexts ==
    {Chars(t) : t \in
        {"null", "true", "false", "0", "-1", "10", "1.5", "-0.25", "1e2", "25e-2",
         "\"\"", "\"ab\"", "\"a\\nb\"", "\"a\\\"b\\\\\"", "\"a\\/b\"", "\"\\f\\t\\r\"",
         "[]", "{}", "[1,2]", " [ 1 , \"a\" , [true] ] ",
         "{\"a\":1,\"b\":[null,{\"c\":\"d\"}]}", "{ \"a\" : 1.5 , \"b\" : false }\n",
         "{\"a\":1,\"a\":2}", "{\"a\":1,\"b\":2,\"a\":[3]}"}}
        \cup {<<"\"", "\\", "b", "\"">>}

\* texts that are not of the grammar: cut short, a value missing, a comma
\* too many, a \u escape, an escape that is none
InvalidTexts ==
    {Chars(t) : t \in
        {"", " ", "{", "[", "[1,2,", "\"unterminated", "{\"a\":}", "{\"a\"}", "[1,]",
         "{\"a\":1,}", "\"\\u0041\"", "\"\\x\"", "{\"a\":1", "[1 2]", "{a:1}", "1.",
         "-", "tru", "[,1]", "{\"a\":\"\\u00e9\"}"}}

\* a text of the grammar with text behind it that is no white space
TrailingTexts == {t \o Chars(x) : t \in ValidTexts, x \in {"x", " ]"}}

\* strings that hold a control character as it is, which parse_string takes
\* like any character
RawControlTexts ==
    {<<"\"", SOH, "\"">>, <<"\"", "a", "\t", "b", "\"">>,
     <<"[", "\"", "a", SOH, "\"", "]">>,
     <<"{", "\"", SOH, SOH, "\"", ":", "1", "}">>}

JsonTexts == ValidTexts \cup InvalidTexts \cup TrailingTexts \cup RawControlTexts

\* the number of crest_json_set calls made on a value
MaxJsonSets == 2

NoSet == [key |-> <<>>, value |-> crest_json_null, before |-> crest_json_null,
          called |-> FALSE]

InitJson ==
    /\ jtext \in JsonTexts
    /\ jpc = "parse"
    /\ jval = <<>>
    /\ jstr = <<>>
    /\ jback = <<>>
    /\ jsets = 0
    /\ jlast = NoSet

\* value = crest_json_parse(text)
JsonParse ==
    /\ jpc = "parse"
    /\ jval' = crest_json_parse(jtext)
    /\ jpc' = "parsed"
    /\ UNCHANGED <<jtext, jstr, jback, jsets, jlast>>
    /\ UNCHANGED <<poolVars, routerVars, probe, serverVars, apiVars, pooledVars,
                   cppPoolVars, httpVars, bodyVars, cppRouteVars>>

\* crest_json_set(value, key, v)
JsonSet ==
    /\ jpc = "parsed"
    /\ jval # <<>>
    /\ jsets < MaxJsonSets
    /\ \E key \in {<<"a">>, <<"z">>}, v \in {crest_json_number(28), crest_json_null} :
          /\ jval' = <<crest_json_set(jval[1], key, v)>>
          /\ jlast' = [key |-> key, value |-> v, before |-> jval[1], called |-> TRUE]
    /\ jsets' = jsets + 1
    /\ UNCHANGED <<jtext, jpc, jstr, jback>>
    /\ UNCHANGED <<poolVars, routerVars, probe, serverVars, apiVars, pooledVars,
                   cppPoolVars, httpVars, bodyVars, cppRouteVars>>

\* text = crest_json_stringify(value)
JsonStringify ==
    /\ jpc = "parsed"
    /\ jval # <<>>
    /\ jstr' = <<crest_json_stringify(jval[1])>>
    /\ jpc' = "stringified"
    /\ UNCHANGED <<jtext, jval, jback, jsets, jlast>>
    /\ UNCHANGED <<poolVars, routerVars, probe, serverVars, apiVars, pooledVars,
                   cppPoolVars, httpVars, bodyVars, cppRouteVars>>

\* back = crest_json_parse(text)
JsonReparse ==
    /\ jpc = "stringified"
    /\ jback' = <<crest_json_parse(jstr[1])>>
    /\ jpc' = "done"
    /\ UNCHANGED <<jtext, jval, jstr, jsets, jlast>>
    /\ UNCHANGED <<poolVars, routerVars, probe, serverVars, apiVars, pooledVars,
                   cppPoolVars, httpVars, bodyVars, cppRouteVars>>

NextJson ==
    \/ JsonParse
    \/ JsonSet
    \/ JsonStringify
    \/ JsonReparse

\* no text is being parsed
IdleJson ==
    /\ jtext = <<>>
    /\ jpc = "idle"
    /\ jval = <<>>
    /\ jstr = <<>>
    /\ jback = <<>>
    /\ jsets = 0
    /\ jlast = NoSet

(***************************************************************************)
(* The pooled server: crest_run of server.cpp hands every accepted         *)
(* connection to a worker of the thread pool, which runs handle_client,    *)
(* while the thread that owns the app may go on registering routes         *)
(***************************************************************************)
\* the workers of the pool that handle connections
PoolWorkers == {"w1", "w2"}

\* the connections accepted, and the registration calls made, in one run
MaxConnections == 3
MaxRegistrations == 2

\* the paths asked for and registered
PooledPaths == {"/docs", "/openapi.json", "/playground", "/a"}

\* std::lock_guard enters whatever the state of the mutex
lock_guard_enters_always(mutex) == TRUE

\* std::lock_guard lock(*app->route_mutex) enters when the mutex is free
lock_guard_enters(mutex) == mutex = "free"

\* crest_route: the capacity the table is reallocated to when it is full
new_capacity(capacity) == IF capacity = 0 THEN 16 ELSE capacity * 2

\* handle_client: is_docs_route
is_docs_route(path) == path \in {"/docs", "/openapi.json", "/playground"}

\* the index of the entry of a path in the table, 0 if none
cpp_find(table, path) ==
    IF \E i \in 1..Len(table) : table[i].path = path
    THEN CHOOSE i \in 1..Len(table) :
            /\ table[i].path = path
            /\ \A j \in 1..(i - 1) : table[j].path # path
    ELSE 0

NoRegistration == [fn |-> "none", path |-> "", result |-> 0]

InitPooled ==
    /\ docs_enabled \in BOOLEAN
    /\ route_mutex = "free"
    /\ cpp_routes = <<>>
    /\ route_capacity = 0
    /\ tpc = [w \in PoolWorkers |-> "idle"]
    /\ treq = [w \in PoolWorkers |-> ""]
    /\ tstatus = [w \in PoolWorkers |-> 0]
    /\ rpc = "idle"
    /\ rcall = NoRegistration
    /\ nconn = 0
    /\ nreg = 0

\* no pooled server runs
IdlePooled ==
    /\ docs_enabled = FALSE
    /\ route_mutex = "free"
    /\ cpp_routes = <<>>
    /\ route_capacity = 0
    /\ tpc = [w \in PoolWorkers |-> "off"]
    /\ treq = [w \in PoolWorkers |-> ""]
    /\ tstatus = [w \in PoolWorkers |-> 0]
    /\ rpc = "off"
    /\ rcall = NoRegistration
    /\ nconn = 0
    /\ nreg = 0

\* crest_run: accept, pool->enqueue; the worker's recv and parse_request
Enqueue(w) ==
    /\ tpc[w] = "idle"
    /\ nconn < MaxConnections
    /\ \E path \in PooledPaths : treq' = [treq EXCEPT ![w] = path]
    /\ tpc' = [tpc EXCEPT ![w] = "recv"]
    /\ tstatus' = [tstatus EXCEPT ![w] = 200]
    /\ nconn' = nconn + 1
    /\ UNCHANGED <<docs_enabled, route_mutex, cpp_routes, route_capacity, rpc, rcall,
                   nreg>>
    /\ UNCHANGED <<poolVars, routerVars, probe, serverVars, apiVars, jsonVars,
                   cppPoolVars, httpVars, bodyVars, cppRouteVars>>

\* handle_client: if (app->docs_enabled && is_docs_route): the worker goes
\* into get_swagger_html or get_openapi_json, or answers /playground, and
\* takes no lock
DocsRoute(w) ==
    /\ tpc[w] = "recv"
    /\ docs_enabled /\ is_docs_route(treq[w])
    /\ tpc' = [tpc EXCEPT ![w] = CASE treq[w] = "/docs" -> "get_swagger_html"
                                   [] treq[w] = "/openapi.json" -> "get_openapi_json"
                                   [] OTHER -> "send"]
    /\ UNCHANGED <<docs_enabled, route_mutex, cpp_routes, route_capacity, treq, tstatus,
                   rpc, rcall, nconn, nreg>>
    /\ UNCHANGED <<poolVars, routerVars, probe, serverVars, apiVars, jsonVars,
                   cppPoolVars, httpVars, bodyVars, cppRouteVars>>

\* get_swagger_html, get_openapi_json: the loop over app->routes has run
ReadDocs(w) ==
    /\ tpc[w] \in {"get_swagger_html", "get_openapi_json"}
    /\ tpc' = [tpc EXCEPT ![w] = "send"]
    /\ UNCHANGED <<docs_enabled, route_mutex, cpp_routes, route_capacity, treq, tstatus,
                   rpc, rcall, nconn, nreg>>
    /\ UNCHANGED <<poolVars, routerVars, probe, serverVars, apiVars, jsonVars,
                   cppPoolVars, httpVars, bodyVars, cppRouteVars>>

\* handle_client, else branch: std::lock_guard lock(route_mutex)
LockRoutes(w) ==
    /\ tpc[w] = "recv"
    /\ ~(docs_enabled /\ is_docs_route(treq[w]))
    /\ lock_guard_enters(route_mutex)
    /\ route_mutex' = w
    /\ tpc' = [tpc EXCEPT ![w] = "find"]
    /\ UNCHANGED <<docs_enabled, cpp_routes, route_capacity, treq, tstatus, rpc, rcall,
                   nconn, nreg>>
    /\ UNCHANGED <<poolVars, routerVars, probe, serverVars, apiVars, jsonVars,
                   cppPoolVars, httpVars, bodyVars, cppRouteVars>>

\* handle_client: the loop over app->routes up to the matching entry, or
\* to its end and the 404
FindCppRoute(w) ==
    /\ tpc[w] = "find"
    /\ LET found == cpp_find(cpp_routes, treq[w]) > 0
       IN /\ tstatus' = [tstatus EXCEPT ![w] = IF found THEN 200 ELSE 404]
          /\ tpc' = [tpc EXCEPT ![w] = IF found THEN "handler" ELSE "unlock"]
    /\ UNCHANGED <<docs_enabled, route_mutex, cpp_routes, route_capacity, treq, rpc, rcall,
                   nconn, nreg>>
    /\ UNCHANGED <<poolVars, routerVars, probe, serverVars, apiVars, jsonVars,
                   cppPoolVars, httpVars, bodyVars, cppRouteVars>>

\* handle_client: (*handler)(cpp_req, cpp_res) or routes[i].handler(&req,
\* &res) has returned, inside the loop
RunCppHandler(w) ==
    /\ tpc[w] = "handler"
    /\ tpc' = [tpc EXCEPT ![w] = "unlock"]
    /\ UNCHANGED <<docs_enabled, route_mutex, cpp_routes, route_capacity, treq, tstatus,
                   rpc, rcall, nconn, nreg>>
    /\ UNCHANGED <<poolVars, routerVars, probe, serverVars, apiVars, jsonVars,
                   cppPoolVars, httpVars, bodyVars, cppRouteVars>>

\* handle_client: the end of the else block releases the lock
UnlockRoutes(w) ==
    /\ tpc[w] = "unlock"
    /\ route_mutex' = "free"
    /\ tpc' = [tpc EXCEPT ![w] = "send"]
    /\ UNCHANGED <<docs_enabled, cpp_routes, route_capacity, treq, tstatus, rpc, rcall,
                   nconn, nreg>>
    /\ UNCHANGED <<poolVars, routerVars, probe, serverVars, apiVars, jsonVars,
                   cppPoolVars, httpVars, bodyVars, cppRouteVars>>

\* handle_client: send, free, closesocket
SendAndClose(w) ==
    /\ tpc[w] = "send"
    /\ tpc' = [tpc EXCEPT ![w] = "idle"]
    /\ UNCHANGED <<docs_enabled, route_mutex, cpp_routes, route_capacity, treq, tstatus,
                   rpc, rcall, nconn, nreg>>
    /\ UNCHANGED <<poolVars, routerVars, probe, serverVars, apiVars, jsonVars,
                   cppPoolVars, httpVars, bodyVars, cppRouteVars>>

\* the owning thread calls crest_route, App::route or
\* crest_set_request_schema
CallRegister ==
    /\ rpc = "idle"
    /\ nreg < MaxRegistrations
    /\ \E fn \in {"crest_route", "App::route", "crest_set_request_schema"},
          path \in {"/a", "/docs"} :
          rcall' = [fn |-> fn, path |-> path, result |-> 0]
    /\ rpc' = "lock"
    /\ nreg' = nreg + 1
    /\ UNCHANGED <<docs_enabled, route_mutex, cpp_routes, route_capacity, tpc, treq,
                   tstatus, nconn>>
    /\ UNCHANGED <<poolVars, routerVars, probe, serverVars, apiVars, jsonVars,
                   cppPoolVars, httpVars, bodyVars, cppRouteVars>>

\* crest_route, crest_set_request_schema: std::lock_guard lock(route_mutex)
RegisterLock ==
    /\ rpc = "lock"
    /\ lock_guard_enters(route_mutex)
    /\ route_mutex' = "main"
    /\ rpc' = "locked"
    /\ UNCHANGED <<docs_enabled, cpp_routes, route_capacity, tpc, treq, tstatus, rcall,
                   nconn, nreg>>
    /\ UNCHANGED <<poolVars, routerVars, probe, serverVars, apiVars, jsonVars,
                   cppPoolVars, httpVars, bodyVars, cppRouteVars>>

\* crest_route: the duplicate loop, the realloc, the new entry;
\* crest_set_request_schema: the entry's schema is replaced
RegisterWrite ==
    /\ rpc = "locked"
    /\ LET at == cpp_find(cpp_routes, rcall.path)
       IN IF rcall.fn = "crest_set_request_schema"
          THEN /\ cpp_routes' = IF at > 0
                                THEN [cpp_routes EXCEPT ![at].request_schema = TRUE]
                                ELSE cpp_routes
               /\ UNCHANGED <<route_capacity, rcall>>
          ELSE IF at > 0
               THEN /\ rcall' = [rcall EXCEPT !.result = -1]
                    /\ UNCHANGED <<cpp_routes, route_capacity>>
               ELSE /\ route_capacity' = IF Len(cpp_routes) >= route_capacity
                                         THEN new_capacity(route_capacity)
                                         ELSE route_capacity
                    /\ cpp_routes' = Append(cpp_routes,
                                            [path |-> rcall.path, cpp_handler |-> FALSE,
                                             request_schema |-> FALSE])
                    /\ UNCHANGED rcall
    /\ rpc' = "unlock"
    /\ UNCHANGED <<docs_enabled, route_mutex, tpc, treq, tstatus, nconn, nreg>>
    /\ UNCHANGED <<poolVars, routerVars, probe, serverVars, apiVars, jsonVars,
                   cppPoolVars, httpVars, bodyVars, cppRouteVars>>

\* the return of crest_route or crest_set_request_schema releases the lock;
\* App::route goes on when crest_route returned 0
RegisterUnlock ==
    /\ rpc = "unlock"
    /\ route_mutex' = "free"
    /\ rpc' = IF rcall.fn = "App::route" /\ rcall.result = 0 THEN "set_cpp_handler"
              ELSE "idle"
    /\ UNCHANGED <<docs_enabled, cpp_routes, route_capacity, tpc, treq, tstatus, rcall,
                   nconn, nreg>>
    /\ UNCHANGED <<poolVars, routerVars, probe, serverVars, apiVars, jsonVars,
                   cppPoolVars, httpVars, bodyVars, cppRouteVars>>

\* App::route: app_->routes[app_->route_count - 1].cpp_handler = handler_ptr
SetCppHandler ==
    /\ rpc = "set_cpp_handler"
    /\ cpp_routes' = IF Len(cpp_routes) > 0
                     THEN [cpp_routes EXCEPT ![Len(cpp_routes)].cpp_handler = TRUE]
                     ELSE cpp_routes
    /\ rpc' = "idle"
    /\ UNCHANGED <<docs_enabled, route_mutex, route_capacity, tpc, treq, tstatus, rcall,
                   nconn, nreg>>
    /\ UNCHANGED <<poolVars, routerVars, probe, serverVars, apiVars, jsonVars,
                   cppPoolVars, httpVars, bodyVars, cppRouteVars>>

NextPooled ==
    \/ \E w \in PoolWorkers : Enqueue(w)
    \/ \E w \in PoolWorkers : DocsRoute(w)
    \/ \E w \in PoolWorkers : ReadDocs(w)
    \/ \E w \in PoolWorkers : LockRoutes(w)
    \/ \E w \in PoolWorkers : FindCppRoute(w)
    \/ \E w \in PoolWorkers : RunCppHandler(w)
    \/ \E w \in PoolWorkers : UnlockRoutes(w)
    \/ \E w \in PoolWorkers : SendAndClose(w)
    \/ CallRegister
    \/ RegisterLock
    \/ RegisterWrite
    \/ RegisterUnlock
    \/ SetCppHandler

(***************************************************************************)
(* crest::ThreadPool (src/src/utils/thread_pool.hpp). Every access to      *)
(* tasks_ and stop_ is made inside a std::unique_lock on queue_mutex_, so  *)
(* each locked block is one step.                                          *)
(***************************************************************************)
\* the threads of workers_, in the order of the vector
CppWorkers == <<"t1", "t2">>

\* the enqueue calls crest_run makes before it deletes the pool
MaxEnqueued == 3

\* a worker that leaves as soon as stop_ is set
worker_returns_on_stop(stop, tasks) == stop

\* worker_thread: if (stop_ && tasks_.empty()) return;
worker_returns(stop, tasks) == stop /\ tasks = <<>>

\* the predicate of condition_.wait
wait_predicate(stop, tasks) == stop \/ tasks # <<>>

\* the workers blocked in condition_.wait
Waiters == {i \in 1..Len(CppWorkers) : cwpc[i] = "wait"}

InitCppPool ==
    /\ tasks_ = <<>>
    /\ stop_ = FALSE
    /\ cwpc = [i \in 1..Len(CppWorkers) |-> "lock"]
    /\ cwtask = [i \in 1..Len(CppWorkers) |-> 0]
    /\ cexec = [t \in 1..MaxEnqueued |-> 0]
    /\ mpc = "serve"
    /\ cji = 1
    /\ nenq = 0

\* no crest::ThreadPool was constructed
IdleCppPool ==
    /\ tasks_ = <<>>
    /\ stop_ = FALSE
    /\ cwpc = [i \in 1..Len(CppWorkers) |-> "off"]
    /\ cwtask = [i \in 1..Len(CppWorkers) |-> 0]
    /\ cexec = [t \in 1..MaxEnqueued |-> 0]
    /\ mpc = "off"
    /\ cji = 1
    /\ nenq = 0

\* enqueue: the locked push
CppEnqueue ==
    /\ mpc = "serve"
    /\ nenq < MaxEnqueued
    /\ tasks_' = Append(tasks_, nenq + 1)
    /\ nenq' = nenq + 1
    /\ mpc' = "notify_one"
    /\ UNCHANGED <<stop_, cwpc, cwtask, cexec, cji>>
    /\ UNCHANGED <<poolVars, routerVars, probe, serverVars, apiVars, jsonVars,
                   pooledVars, httpVars, bodyVars, cppRouteVars>>

\* enqueue: condition_.notify_one() wakes one waiting worker, if there is one
CppNotifyOne ==
    /\ mpc = "notify_one"
    /\ IF Waiters = {} THEN UNCHANGED cwpc
       ELSE \E i \in Waiters : cwpc' = [cwpc EXCEPT ![i] = "lock"]
    /\ mpc' = "serve"
    /\ UNCHANGED <<tasks_, stop_, cwtask, cexec, cji, nenq>>
    /\ UNCHANGED <<poolVars, routerVars, probe, serverVars, apiVars, jsonVars,
                   pooledVars, httpVars, bodyVars, cppRouteVars>>

\* ~ThreadPool: the locked stop_ = true
DtorStop ==
    /\ mpc = "serve"
    /\ stop_' = TRUE
    /\ mpc' = "notify_all"
    /\ UNCHANGED <<tasks_, cwpc, cwtask, cexec, cji, nenq>>
    /\ UNCHANGED <<poolVars, routerVars, probe, serverVars, apiVars, jsonVars,
                   pooledVars, httpVars, bodyVars, cppRouteVars>>

\* ~ThreadPool: condition_.notify_all()
DtorNotifyAll ==
    /\ mpc = "notify_all"
    /\ cwpc' = [i \in 1..Len(CppWorkers) |-> IF cwpc[i] = "wait" THEN "lock" ELSE cwpc[i]]
    /\ mpc' = "join"
    /\ UNCHANGED <<tasks_, stop_, cwtask, cexec, cji, nenq>>
    /\ UNCHANGED <<poolVars, routerVars, probe, serverVars, apiVars, jsonVars,
                   pooledVars, httpVars, bodyVars, cppRouteVars>>

\* ~ThreadPool: worker.join() returns for the next worker of the vector
\* once that worker has returned
DtorJoin ==
    /\ mpc = "join"
    /\ cwpc[cji] = "returned"
    /\ IF cji = Len(CppWorkers)
       THEN mpc' = "destroyed" /\ UNCHANGED cji
       ELSE cji' = cji + 1 /\ UNCHANGED mpc
    /\ UNCHANGED <<tasks_, stop_, cwpc, cwtask, cexec, nenq>>
    /\ UNCHANGED <<poolVars, routerVars, probe, serverVars, apiVars, jsonVars,
                   pooledVars, httpVars, bodyVars, cppRouteVars>>

\* worker_thread: the locked block: wait on the predicate, return, or take
\* the front task
CppWorkerLocked(i) ==
    /\ cwpc[i] = "lock"
    /\ IF ~wait_predicate(stop_, tasks_)
       THEN /\ cwpc' = [cwpc EXCEPT ![i] = "wait"]
            /\ UNCHANGED <<tasks_, cwtask>>
       ELSE IF worker_returns(stop_, tasks_)
       THEN /\ cwpc' = [cwpc EXCEPT ![i] = "returned"]
            /\ UNCHANGED <<tasks_, cwtask>>
       ELSE IF tasks_ # <<>>
       THEN /\ cwtask' = [cwtask EXCEPT ![i] = Head(tasks_)]
            /\ tasks_' = Tail(tasks_)
            /\ cwpc' = [cwpc EXCEPT ![i] = "task"]
       ELSE /\ cwpc' = [cwpc EXCEPT ![i] = "task"]
            /\ UNCHANGED <<tasks_, cwtask>>
    /\ UNCHANGED <<stop_, cexec, mpc, cji, nenq>>
    /\ UNCHANGED <<poolVars, routerVars, probe, serverVars, apiVars, jsonVars,
                   pooledVars, httpVars, bodyVars, cppRouteVars>>

\* worker_thread: if (task) task();
CppWorkerTask(i) ==
    /\ cwpc[i] = "task"
    /\ cexec' = IF cwtask[i] # 0 THEN [cexec EXCEPT ![cwtask[i]] = @ + 1] ELSE cexec
    /\ cwtask' = [cwtask EXCEPT ![i] = 0]
    /\ cwpc' = [cwpc EXCEPT ![i] = "lock"]
    /\ UNCHANGED <<tasks_, stop_, mpc, cji, nenq>>
    /\ UNCHANGED <<poolVars, routerVars, probe, serverVars, apiVars, jsonVars,
                   pooledVars, httpVars, bodyVars, cppRouteVars>>

\* condition_.wait may return without a notification
CppSpuriousWakeup(i) ==
    /\ cwpc[i] = "wait"
    /\ cwpc' = [cwpc EXCEPT ![i] = "lock"]
    /\ UNCHANGED <<tasks_, stop_, cwtask, cexec, mpc, cji, nenq>>
    /\ UNCHANGED <<poolVars, routerVars, probe, serverVars, apiVars, jsonVars,
                   pooledVars, httpVars, bodyVars, cppRouteVars>>

NextCppPool ==
    \/ CppEnqueue
    \/ CppNotifyOne
    \/ DtorStop
    \/ DtorNotifyAll
    \/ DtorJoin
    \/ \E i \in 1..Len(CppWorkers) : CppWorkerLocked(i)
    \/ \E i \in 1..Len(CppWorkers) : CppWorkerTask(i)
    \/ \E i \in 1..Len(CppWorkers) : CppSpuriousWakeup(i)

\* the threads run: every step of a worker and of the thread in ~ThreadPool
\* is taken in the end; nothing makes crest_run call enqueue or delete
FairCppPool ==
    /\ \A i \in 1..Len(CppWorkers) : WF_vars(CppWorkerLocked(i))
    /\ \A i \in 1..Len(CppWorkers) : WF_vars(CppWorkerTask(i))
    /\ WF_vars(CppNotifyOne)
    /\ WF_vars(DtorNotifyAll)
    /\ WF_vars(DtorJoin)

(***************************************************************************)
(* The (status, body) response API of the pooled server                    *)
(* (src/src/http/response.c), and the send of handle_client                *)
(***************************************************************************)
\* the calls a handler makes on one response
MaxHttpCalls == 3

\* the text the three functions print into res->body: the buffer holds
\* strlen(text) + 256 bytes
http_message(content_type, status, text) ==
    snprintf(Len(text) + 256,
             "HTTP/1.1 " \o ToString(status) \o " OK\r\n"
             \o "Content-Type: " \o content_type \o "\r\n"
             \o "Content-Length: " \o ToString(Len(text)) \o "\r\n"
             \o "Connection: close\r\n"
             \o "\r\n" \o text)

\* a crest_response_json that does not test res->sent
http_response_json_again(r, status, json) ==
    [r EXCEPT !.status = status,
              !.body = http_message("application/json", status, json),
              !.sent = TRUE]

\* crest_response_json of http/response.c
http_response_json(r, status, json) ==
    IF r.sent THEN r
    ELSE [r EXCEPT !.status = status,
                   !.body = http_message("application/json", status, json),
                   !.sent = TRUE]

\* crest_response_text
http_response_text(r, status, text) ==
    IF r.sent THEN r
    ELSE [r EXCEPT !.status = status,
                   !.body = http_message("text/plain", status, text),
                   !.sent = TRUE]

\* crest_response_html
http_response_html(r, status, html) ==
    IF r.sent THEN r
    ELSE [r EXCEPT !.status = status,
                   !.body = http_message("text/html; charset=utf-8", status, html),
                   !.sent = TRUE]

\* the statuses and texts a handler answers with
HttpStatuses == {200, 404, 500}
HttpTexts == {"{\"ok\":true}", "bye", "<p>hi</p>"}

NoHttpCall == [fn |-> "none", status |-> 0, text |-> NULLTXT]

\* handle_client: crest_response_t res = {0}; res.status = 200; res.sent = false
InitHttp ==
    /\ hres = [status |-> 200, body |-> NULLTXT, sent |-> FALSE]
    /\ hfirst = NoHttpCall
    /\ hcalls = 0
    /\ hsock = <<>>
    /\ hdone = FALSE

\* no response of the pooled server exists
IdleHttp ==
    /\ hres = [status |-> 0, body |-> NULLTXT, sent |-> FALSE]
    /\ hfirst = NoHttpCall
    /\ hcalls = 0
    /\ hsock = <<>>
    /\ hdone = TRUE

\* the handler calls crest_response_json(res, status, json)
HttpJson ==
    /\ ~hdone /\ hcalls < MaxHttpCalls
    /\ \E status \in HttpStatuses, text \in HttpTexts :
          /\ hres' = http_response_json(hres, status, text)
          /\ hfirst' = IF hcalls = 0
                       THEN [fn |-> "application/json", status |-> status, text |-> text]
                       ELSE hfirst
    /\ hcalls' = hcalls + 1
    /\ UNCHANGED <<hsock, hdone>>
    /\ UNCHANGED <<poolVars, routerVars, probe, serverVars, apiVars, jsonVars, pooledVars,
                   cppPoolVars, bodyVars, cppRouteVars>>

\* the handler calls crest_response_text(res, status, text)
HttpText ==
    /\ ~hdone /\ hcalls < MaxHttpCalls
    /\ \E status \in HttpStatuses, text \in HttpTexts :
          /\ hres' = http_response_text(hres, status, text)
          /\ hfirst' = IF hcalls = 0
                       THEN [fn |-> "text/plain", status |-> status, text |-> text]
                       ELSE hfirst
    /\ hcalls' = hcalls + 1
    /\ UNCHANGED <<hsock, hdone>>
    /\ UNCHANGED <<poolVars, routerVars, probe, serverVars, apiVars, jsonVars, pooledVars,
                   cppPoolVars, bodyVars, cppRouteVars>>

\* the handler calls crest_response_html(res, status, html)
HttpHtml ==
    /\ ~hdone /\ hcalls < MaxHttpCalls
    /\ \E status \in HttpStatuses, text \in HttpTexts :
          /\ hres' = http_response_html(hres, status, text)
          /\ hfirst' = IF hcalls = 0
                       THEN [fn |-> "text/html; charset=utf-8", status |-> status,
                             text |-> text]
                       ELSE hfirst
    /\ hcalls' = hcalls + 1
    /\ UNCHANGED <<hsock, hdone>>
    /\ UNCHANGED <<poolVars, routerVars, probe, serverVars, apiVars, jsonVars, pooledVars,
                   cppPoolVars, bodyVars, cppRouteVars>>

\* handle_client: if (res.body) send(client_socket, res.body, strlen(res.body))
HttpSend ==
    /\ ~hdone
    /\ hsock' = IF hres.body # NULLTXT THEN <<hres.body>> ELSE hsock
    /\ hdone' = TRUE
    /\ UNCHANGED <<hres, hfirst, hcalls>>
    /\ UNCHANGED <<poolVars, routerVars, probe, serverVars, apiVars, jsonVars, pooledVars,
                   cppPoolVars, bodyVars, cppRouteVars>>

NextHttp ==
    \/ HttpJson
    \/ HttpText
    \/ HttpHtml
    \/ HttpSend

(***************************************************************************)
(* The body-parser middleware (src/src/core/middleware.c) in the chain of  *)
(* handle_connection (src/src/core/server.c)                               *)
(***************************************************************************)
CREST_STATUS_BAD_REQUEST == 400

\* crest_request_header: the value of the first header whose key equals key
\* without regard to case, or NULL
crest_request_header(request, key) ==
    IF \E i \in 1..Len(request.headers) : strcasecmp(request.headers[i].key, key)
    THEN LET i == CHOOSE k \in 1..Len(request.headers) :
                      /\ strcasecmp(request.headers[k].key, key)
                      /\ \A l \in 1..(k - 1) : ~strcasecmp(request.headers[l].key, key)
         IN request.headers[i].value
    ELSE NULLTXT

\* crest_request_body
crest_request_body(request) == request.body

\* the content type body_parser_handler looks at: the header, else the
\* request's content_type field
body_content_type(request) ==
    LET content_type == crest_request_header(request, "Content-Type")
    IN IF content_type = NULLTXT /\ request.content_type # NULLTXT
       THEN request.content_type
       ELSE content_type

\* a body parser that lets a request through whatever its body holds
body_parser_lenient(request, resp) ==
    LET content_type == body_content_type(request)
        body == crest_request_body(request)
    IN IF body = NULLTXT \/ content_type = NULLTXT
       THEN [req |-> request, res |-> resp, ret |-> TRUE]
       ELSE IF strstr_at(content_type, "application/json") # 0
       THEN [req |-> [request EXCEPT !.parsed_body = crest_json_parse(Chars(body))],
             res |-> resp, ret |-> TRUE]
       ELSE [req |-> request, res |-> resp, ret |-> TRUE]

\* body_parser_handler: the request and the resp it leaves and what it
\* returns. The form and multipart branches parse into locals they free and
\* change neither the request nor the resp.
body_parser_handler(request, resp) ==
    LET content_type == body_content_type(request)
        body == crest_request_body(request)
    IN IF body = NULLTXT \/ content_type = NULLTXT
       THEN [req |-> request, res |-> resp, ret |-> TRUE]
       ELSE IF strstr_at(content_type, "application/json") # 0
       THEN LET json == crest_json_parse(Chars(body))
            IN IF json = <<>>
               THEN [req |-> request,
                     res |-> crest_response_json(
                                 crest_response_status(resp,
                                                       CREST_STATUS_BAD_REQUEST),
                                 "{\"error\":\"Invalid JSON\"}"),
                     ret |-> FALSE]
               ELSE [req |-> [request EXCEPT !.parsed_body = json],
                     res |-> resp, ret |-> TRUE]
       ELSE [req |-> request, res |-> resp, ret |-> TRUE]

\* the requests clients send to the chain: JSON declared with a body that
\* parses and with bodies that do not, the header key in lower case, a
\* parameter behind the media type, another media type, no Content-Type
\* header, and no body
BodyRequestTexts ==
    {"POST /a HTTP/1.1\r\nContent-Type: application/json\r\n\r\n{\"a\":1}",
     "POST /a HTTP/1.1\r\nContent-Type: application/json\r\n\r\n[1,2]",
     "POST /a HTTP/1.1\r\nContent-Type: application/json\r\n\r\n{\"a\":",
     "POST /a HTTP/1.1\r\nContent-Type: application/json\r\n\r\n{bad}",
     "POST /a HTTP/1.1\r\ncontent-type: application/json\r\n\r\n[1,",
     "PUT /a HTTP/1.1\r\nContent-Type: application/json; charset=utf-8\r\n\r\ntrue x",
     "PUT /a HTTP/1.1\r\nContent-Type: application/json; charset=utf-8\r\n\r\n\"s\"",
     "POST /a HTTP/1.1\r\nContent-Type: text/plain\r\n\r\n{bad}",
     "POST /a HTTP/1.1\r\nHost: x\r\n\r\n{bad}",
     "POST /a HTTP/1.1\r\nContent-Type: application/json\r\n\r\n"}

\* the request handle_connection holds: what parse_request stored, the
\* fields calloc left NULL
BodyRequest(raw) ==
    LET request == parse_request(raw)[1]
    IN [method |-> request.method, path |-> request.path,
        headers |-> request.headers, body |-> request.body,
        content_type |-> NULLTXT, parsed_body |-> <<>>]

NoBodyRequest ==
    [method |-> 0, path |-> NULLSTR, headers |-> <<>>, body |-> NULLTXT,
     content_type |-> NULLTXT, parsed_body |-> <<>>]

\* the body parser's place in app->middleware
BodyParser == [NoEffect EXCEPT !.body = "body_parser"]

\* the middleware arrays crest_use built: the body parser alone, before
\* another middleware, and behind one
BodyChains ==
    {<<BodyParser>>}
    \cup {<<BodyParser, m>> : m \in MiddlewareEffects}
    \cup {<<m, BodyParser>> : m \in MiddlewareEffects}

\* handle_connection after parse_request and create_response, in front of
\* the middleware loop
InitBody ==
    /\ \E raw \in BodyRequestTexts : breq = BodyRequest(raw)
    /\ bres = create_response
    /\ bchain \in BodyChains
    /\ bi = 0
    /\ bpc = "middleware"
    /\ bran = <<>>

\* no request is in the chain
IdleBody ==
    /\ breq = NoBodyRequest
    /\ bres = create_response
    /\ bchain = <<>>
    /\ bi = 0
    /\ bpc = "off"
    /\ bran = <<>>

\* app->middleware[i].handler(req, res) where the handler is
\* body_parser_handler, and the loop's test of what it returned
BodyParserRuns ==
    /\ bpc = "middleware"
    /\ bchain[bi + 1] = BodyParser
    /\ LET out == body_parser_handler(breq, bres)
           step == middleware_step(out.ret, bi, Len(bchain))
       IN /\ breq' = out.req
          /\ bres' = out.res
          /\ bi' = step.i
          /\ bpc' = step.pc
          /\ bran' = Append(bran, [who |-> "body_parser", parsed_body |-> breq.parsed_body])
    /\ UNCHANGED bchain
    /\ UNCHANGED <<poolVars, routerVars, probe, serverVars, apiVars, jsonVars, pooledVars,
                   cppPoolVars, httpVars, cppRouteVars>>

\* app->middleware[i].handler(req, res) for another middleware
BodyOtherMiddleware ==
    /\ bpc = "middleware"
    /\ bchain[bi + 1] # BodyParser
    /\ LET e == bchain[bi + 1]
           step == middleware_step(e.ret, bi, Len(bchain))
       IN /\ bres' = apply_effect(bres, e)
          /\ bi' = step.i
          /\ bpc' = step.pc
    /\ bran' = Append(bran, [who |-> "middleware", parsed_body |-> breq.parsed_body])
    /\ UNCHANGED <<breq, bchain>>
    /\ UNCHANGED <<poolVars, routerVars, probe, serverVars, apiVars, jsonVars, pooledVars,
                   cppPoolVars, httpVars, cppRouteVars>>

\* middleware_passed: find_route found the route and its handler runs
BodyHandler ==
    /\ bpc = "find"
    /\ \E e \in HandlerEffects : bres' = apply_effect(bres, e)
    /\ bran' = Append(bran, [who |-> "handler", parsed_body |-> breq.parsed_body])
    /\ bpc' = "send"
    /\ UNCHANGED <<breq, bchain, bi>>
    /\ UNCHANGED <<poolVars, routerVars, probe, serverVars, apiVars, jsonVars, pooledVars,
                   cppPoolVars, httpVars, cppRouteVars>>

\* middleware_passed: find_route returned NULL
BodyNotFound ==
    /\ bpc = "find"
    /\ bres' = crest_response_json(crest_response_status(bres, CREST_STATUS_NOT_FOUND),
                                   "{\"error\":\"Not Found\"}")
    /\ bran' = Append(bran, [who |-> "not_found", parsed_body |-> breq.parsed_body])
    /\ bpc' = "send"
    /\ UNCHANGED <<breq, bchain, bi>>
    /\ UNCHANGED <<poolVars, routerVars, probe, serverVars, apiVars, jsonVars, pooledVars,
                   cppPoolVars, httpVars, cppRouteVars>>

\* the default status and send_response
BodySend ==
    /\ bpc = "send"
    /\ bres' = IF bres.status_code = 0
               THEN crest_response_status(bres, CREST_STATUS_OK)
               ELSE bres
    /\ bpc' = "done"
    /\ UNCHANGED <<breq, bchain, bi, bran>>
    /\ UNCHANGED <<poolVars, routerVars, probe, serverVars, apiVars, jsonVars, pooledVars,
                   cppPoolVars, httpVars, cppRouteVars>>

NextBody ==
    \/ BodyParserRuns
    \/ BodyOtherMiddleware
    \/ BodyHandler
    \/ BodyNotFound
    \/ BodySend

(***************************************************************************)
(* crest_route (src/src/router/router.cpp) called from several threads     *)
(***************************************************************************)
\* the threads that register routes, and the calls they make in one run
RouteThreads == {"r1", "r2"}
MaxRouteCalls == 3

\* the arguments of the calls: two methods, two paths, a handler or NULL
RouteMethods == {CREST_GET, CREST_POST}
RoutePaths == {"/a", "/b"}

\* crest_route: the duplicate loop finds an entry with this method and path
duplicate_route(app, method, path) ==
    \E i \in 1..app.route_count :
        app.routes[i].method = method /\ app.routes[i].path = path

\* crest_route behind the duplicate loop: the realloc when the table is
\* full, which may fail, and the new entry; the app it leaves and what it
\* returns
add_route(app, method, path, realloc_ok) ==
    LET full == app.route_count >= app.route_capacity
        grown == IF full
                 THEN [app EXCEPT !.route_capacity = new_capacity(app.route_capacity)]
                 ELSE app
    IN IF full /\ ~realloc_ok THEN [app |-> app, ret |-> -1]
       ELSE [app |-> [grown EXCEPT
                         !.routes = Append(SubSeq(@, 1, app.route_count),
                                           [method |-> method, path |-> path]),
                         !.route_count = @ + 1],
             ret |-> 0]

NoRouteCall ==
    [method |-> 0, path |-> NULLTXT, handler |-> FALSE, ret |-> 0, duplicate |-> FALSE,
     before |-> <<>>]

\* crest_app_create: no routes, no capacity
InitCppRoute ==
    /\ capp = [routes |-> <<>>, route_count |-> 0, route_capacity |-> 0]
    /\ cmutex = "free"
    /\ cpc = [t \in RouteThreads |-> "idle"]
    /\ ccall = [t \in RouteThreads |-> NoRouteCall]
    /\ ncalls = 0

\* no thread registers routes
IdleCppRoute ==
    /\ capp = [routes |-> <<>>, route_count |-> 0, route_capacity |-> 0]
    /\ cmutex = "free"
    /\ cpc = [t \in RouteThreads |-> "off"]
    /\ ccall = [t \in RouteThreads |-> NoRouteCall]
    /\ ncalls = 0

\* a thread calls crest_route: if (!app || !path || !handler) return -1
CrestRouteCall(t) ==
    /\ cpc[t] \in {"idle", "returned"}
    /\ ncalls < MaxRouteCalls
    /\ \E method \in RouteMethods, path \in RoutePaths \cup {NULLTXT},
          handler \in BOOLEAN :
          LET bad == path = NULLTXT \/ ~handler
          IN /\ ccall' = [ccall EXCEPT ![t] =
                            [method |-> method, path |-> path, handler |-> handler,
                             ret |-> IF bad THEN -1 ELSE 0, duplicate |-> FALSE,
                             before |-> <<capp>>]]
             /\ cpc' = [cpc EXCEPT ![t] = IF bad THEN "returned" ELSE "lock"]
    /\ ncalls' = ncalls + 1
    /\ UNCHANGED <<capp, cmutex>>
    /\ UNCHANGED <<poolVars, routerVars, probe, serverVars, apiVars, jsonVars, pooledVars,
                   cppPoolVars, httpVars, bodyVars>>

\* std::lock_guard lock(route_mutex)
CrestRouteLock(t) ==
    /\ cpc[t] = "lock"
    /\ lock_guard_enters(cmutex)
    /\ cmutex' = t
    /\ cpc' = [cpc EXCEPT ![t] = "check"]
    /\ ccall' = [ccall EXCEPT ![t].before = <<capp>>]
    /\ UNCHANGED <<capp, ncalls>>
    /\ UNCHANGED <<poolVars, routerVars, probe, serverVars, apiVars, jsonVars, pooledVars,
                   cppPoolVars, httpVars, bodyVars>>

\* the duplicate loop: return -1 on a duplicate
CrestRouteCheck(t) ==
    /\ cpc[t] = "check"
    /\ LET dup == duplicate_route(capp, ccall[t].method, ccall[t].path)
       IN /\ ccall' = [ccall EXCEPT ![t].duplicate = dup,
                                    ![t].ret = IF dup THEN -1 ELSE 0]
          /\ cpc' = [cpc EXCEPT ![t] = IF dup THEN "unlock" ELSE "add"]
    /\ UNCHANGED <<capp, cmutex, ncalls>>
    /\ UNCHANGED <<poolVars, routerVars, probe, serverVars, apiVars, jsonVars, pooledVars,
                   cppPoolVars, httpVars, bodyVars>>

\* the realloc and the new entry
CrestRouteAdd(t) ==
    /\ cpc[t] = "add"
    /\ \E realloc_ok \in BOOLEAN :
          LET out == add_route(capp, ccall[t].method, ccall[t].path, realloc_ok)
          IN /\ capp' = out.app
             /\ ccall' = [ccall EXCEPT ![t].ret = out.ret]
    /\ cpc' = [cpc EXCEPT ![t] = "unlock"]
    /\ UNCHANGED <<cmutex, ncalls>>
    /\ UNCHANGED <<poolVars, routerVars, probe, serverVars, apiVars, jsonVars, pooledVars,
                   cppPoolVars, httpVars, bodyVars>>

\* the return releases the lock
CrestRouteReturn(t) ==
    /\ cpc[t] = "unlock"
    /\ cmutex' = "free"
    /\ cpc' = [cpc EXCEPT ![t] = "returned"]
    /\ UNCHANGED <<capp, ccall, ncalls>>
    /\ UNCHANGED <<poolVars, routerVars, probe, serverVars, apiVars, jsonVars, pooledVars,
                   cppPoolVars, httpVars, bodyVars>>

NextCppRoute ==
    \/ \E t \in RouteThreads : CrestRouteCall(t)
    \/ \E t \in RouteThreads : CrestRouteLock(t)
    \/ \E t \in RouteThreads : CrestRouteCheck(t)
    \/ \E t \in RouteThreads : CrestRouteAdd(t)
    \/ \E t \in RouteThreads : CrestRouteReturn(t)

\* the variables outside the pool, the router, the matcher and the server
InitRest == InitApi /\ IdleJson /\ IdlePooled /\ IdleCppPool /\ IdleHttp /\ IdleBody /\ IdleCppRoute

(***************************************************************************)
(* Specifications                                                          *)
(***************************************************************************)
Init == InitPool /\ InitRouter /\ InitProbe /\ InitConn /\ InitRest

InitMatch == InitPool /\ InitRouter /\ ProbeInputs /\ InitConn /\ InitRest

InitServe == InitPool /\ InitServer /\ InitProbe /\ InitConn /\ InitRest

NextPool ==
    \/ \E s \in Submitters : SubmitCall(s)
    \/ \E s \in Submitters : SubmitPush(s)
    \/ \E s \in Submitters : SubmitPushFreed(s)
    \/ \E w \in Workers : WorkerCheck(w)
    \/ \E w \in Workers : WorkerWait(w)
    \/ \E w \in Workers : WorkerPop(w)
    \/ \E w \in Workers : SpuriousWakeup(w)
    \/ \E w \in Workers : WorkerRun(w)
    \/ DestroyCall
    \/ DestroySentinel
    \/ DestroyBroadcast
    \/ DestroyJoin
    \/ DestroyFree

SpecPool == Init /\ [][NextPool]_vars

SpecRouter == Init /\ [][NextRouter]_vars

SpecMatch == InitMatch /\ [][NextMatch]_vars

SpecServer == InitServe /\ [][NextServer]_vars

SpecResponse == Init /\ [][NextApi]_vars

InitParse ==
    InitPool /\ InitRouter /\ InitProbe /\ InitConn /\ InitApi /\ InitJson /\ IdlePooled
    /\ IdleCppPool /\ IdleHttp /\ IdleBody /\ IdleCppRoute

SpecJson == InitParse /\ [][NextJson]_vars

InitReserved == InitPool /\ InitDashboard /\ InitProbe /\ InitConn /\ InitRest

SpecDashboard == InitReserved /\ [][NextDashboard]_vars

InitCpp ==
    InitPool /\ InitRouter /\ InitProbe /\ InitConn /\ InitApi /\ IdleJson /\ IdlePooled
    /\ InitCppPool /\ IdleHttp /\ IdleBody /\ IdleCppRoute

SpecCppPool == InitCpp /\ [][NextCppPool]_vars

LiveSpecCppPool == InitCpp /\ [][NextCppPool]_vars /\ FairCppPool

InitHttpResponse ==
    InitPool /\ InitRouter /\ InitProbe /\ InitConn /\ InitApi /\ IdleJson /\ IdlePooled
    /\ IdleCppPool /\ InitHttp /\ IdleBody /\ IdleCppRoute

SpecHttp == InitHttpResponse /\ [][NextHttp]_vars

InitBodyParser ==
    InitPool /\ InitRouter /\ InitProbe /\ InitConn /\ InitApi /\ IdleJson /\ IdlePooled
    /\ IdleCppPool /\ IdleHttp /\ InitBody /\ IdleCppRoute

SpecBodyParser == InitBodyParser /\ [][NextBody]_vars

InitRouteThreads ==
    InitPool /\ InitRouter /\ InitProbe /\ InitConn /\ InitApi /\ IdleJson /\ IdlePooled
    /\ IdleCppPool /\ IdleHttp /\ IdleBody /\ InitCppRoute

SpecCppRoute == InitRouteThreads /\ [][NextCppRoute]_vars

InitServePooled ==
    InitPool /\ InitRouter /\ InitProbe /\ InitConn /\ InitApi /\ IdleJson /\ InitPooled
    /\ IdleCppPool /\ IdleHttp /\ IdleBody /\ IdleCppRoute

SpecPooled == InitServePooled /\ [][NextPooled]_vars

\* The server thread goes on once a call returned: the middleware and the
\* handlers return, and so do send and close. Clients need not connect, and
\* recv need not return: a client that sends nothing keeps it blocked.
FairServer ==
    /\ WF_vars(RunMiddleware)
    /\ WF_vars(FindRoute)
    /\ WF_vars(HandleRoute)
    /\ WF_vars(NotFound)
    /\ WF_vars(SendResponse)
    /\ WF_vars(CloseConnection)

LiveSpecServer == InitServe /\ [][NextServer]_vars /\ FairServer

\* Fair scheduling of the workers and of the thread running destroy; clients
\* need not call, and pthread_cond_wait need not wake without a signal.
FairPool ==
    /\ \A w \in Workers : WF_vars(WorkerCheck(w))
    /\ \A w \in Workers : WF_vars(WorkerPop(w))
    /\ \A w \in Workers : WF_vars(WorkerRun(w))
    /\ WF_vars(DestroySentinel)
    /\ WF_vars(DestroyBroadcast)
    /\ WF_vars(DestroyJoin)
    /\ WF_vars(DestroyFree)

LiveSpecPool == Init /\ [][NextPool]_vars /\ FairPool

(***************************************************************************)
(* Claims about the worker pool                                            *)
(***************************************************************************)

\* C1: every task that crest_thread_pool_submit accepted before
\* crest_thread_pool_destroy was called has been executed when
\* crest_thread_pool_destroy returns.
C1_ShutdownDrains ==
    dpc = "returned" => \A t \in preDestroy : executed[t] >= 1

\* C2: every task is popped by at most one worker and its function is invoked
\* at most once; no two workers ever hold the same task.
C2_AtMostOnce ==
    /\ \A t \in Tasks : executed[t] <= 1
    /\ \A i, j \in 1..Len(popLog) : popLog[i] = popLog[j] => i = j
    /\ \A v, w \in Workers :
          (v # w /\ wtask[v].function = "task" /\ wtask[w].function = "task")
              => wtask[v].arg # wtask[w].arg
    /\ \A t \in Tasks : \A w \in Workers :
          (wtask[w].function = "task" /\ wtask[w].arg = t) => executed[t] = 0

\* two workers run two different tasks at the same time, after a third pop
C2_Witness ==
    /\ \A w \in Workers : wpc[w] = "run" /\ wtask[w].function = "task"
    /\ \E v, w \in Workers : wtask[v].arg # wtask[w].arg

\* C3: once crest_thread_pool_destroy has set the shutdown flag, it returns:
\* every worker leaves its loop and is joined.
C3_DestroyTerminates == (dpc = "sentinels") ~> (dpc = "returned")

\* destroy has returned, every worker has exited, and tasks were still queued
C3_Witness ==
    /\ dpc = "returned"
    /\ \A w \in Workers : wpc[w] = "exit"
    /\ size > thread_count

\* C4: a call to crest_thread_pool_submit made when the shutdown flag is set
\* returns false at once and leaves the task queue as it was.
C4_SubmitAfterShutdownFails ==
    [][\A s \in Submitters :
          (shutdown /\ spc[s] = "idle" /\ spc'[s] # "idle")
              => /\ spc'[s] = "false"
                 /\ <<head, tail, size, heap>>' = <<head, tail, size, heap>>]_vars

\* a call was refused while the queue still held a task
C4_Witness == \E s \in Submitters : spc[s] = "false" /\ size > 0 /\ ~freed

\* C5: the nodes leave the queue in the order they entered it (node ids are
\* given in the order of the pushes).
C5_FifoOrder == \A i \in 1..Len(popLog) : popLog[i] = i

\* three nodes were popped, the pushes coming from two clients and destroy
C5_Witness ==
    /\ Len(popLog) >= 3
    /\ \A t \in Tasks : spc[t] = "true"

(***************************************************************************)
(* Claims about routing                                                    *)
(***************************************************************************)
\* the requests looked up: every method, and paths that hit an exact route,
\* a pattern route, both, or none
RequestMethods ==
    {CREST_GET, CREST_POST, CREST_PUT, CREST_DELETE, CREST_PATCH, CREST_HEAD,
     CREST_OPTIONS}

RequestPaths ==
    {PathUsersNew,
     <<"/", "u", "s", "e", "r", "s", "/", "4", "2">>,
     PathDocs,
     <<"/", "u", "s", "e", "r", "s", "/", "4", "2", "/", "x">>}

\* the indexes of the registered routes with this method and path
IndexesOf(method, path) ==
    {i \in 0..(route_count - 1) : routes[i].method = method /\ routes[i].path = path}

\* the indexes of the registered routes a request matches
Matching(method, path) ==
    {i \in 0..(route_count - 1) :
        /\ routes[i].method = method
        /\ IF routes[i].is_pattern
           THEN match_route_pattern(routes[i].path, path, <<>>).ok
           ELSE routes[i].path = path}

\* C6: find_route returns the matching route of lowest registration index,
\* and no route exactly when none matches; GET /users/new goes to whichever
\* of /users/:id and /users/new was registered first.
C6_FirstMatchWins ==
    /\ \A method \in RequestMethods, path \in RequestPaths :
          LET r == find_route(App, method, path)
              matching == Matching(method, path)
          IN IF matching = {}
             THEN r = -1
             ELSE r \in matching /\ \A j \in matching : r <= j
    /\ \A i \in IndexesOf(CREST_GET, PathUsersId) :
          \A j \in IndexesOf(CREST_GET, PathUsersNew) :
             find_route(App, CREST_GET, PathUsersNew) = IF i < j THEN i ELSE j

\* /users/:id is registered before /users/new, behind a route of another
\* method, and GET /users/new selects /users/:id
C6_Witness ==
    /\ \E i \in IndexesOf(CREST_GET, PathUsersId) :
          /\ i > 0
          /\ \E j \in IndexesOf(CREST_GET, PathUsersNew) : i < j
          /\ find_route(App, CREST_GET, PathUsersNew) = i
    /\ find_route(App, CREST_GET, PathDocs) = -1

\* the entry a registration call leaves in the table
EntryOfCall(call) ==
    [method |-> call.method, path |-> call.path, handler |-> call.handler,
     description |-> call.description,
     is_pattern |-> \E k \in 1..Len(call.path) : call.path[k] \in {":", "*"},
     pattern |-> IF \E k \in 1..Len(call.path) : call.path[k] \in {":", "*"}
                 THEN call.path ELSE NULLSTR]

\* C7: registering a (method, path) that is already in the table replaces
\* that entry's handler, description and pattern flag at its index and leaves
\* route_count and every other entry unchanged, in every table state.
C7_DuplicateOverwrites ==
    [][\A i \in IndexesOf(lastCall'.method, lastCall'.path) :
          lastCall'.fn = "register"
              => /\ route_count' = route_count
                 /\ routes' = [routes EXCEPT ![i] = EntryOfCall(lastCall')]]_vars

\* C8: no two entries of the route table have the same (method, path).
C8_NoDuplicatePairs ==
    \A i, j \in 0..(route_count - 1) :
        (routes[i].method = routes[j].method /\ routes[i].path = routes[j].path)
            => i = j

\* the last call registered again a pair that is not the last entry, and the
\* entry now carries that call's handler
C8_Witness ==
    /\ lastCall.fn = "register"
    /\ lastCall.handler = "h2"
    /\ route_count = CREST_MAX_ROUTES - 1
    /\ \E i \in IndexesOf(lastCall.method, lastCall.path) :
          i < route_count - 1 /\ routes[i].handler = "h2"

\* C9: the counts never exceed the capacities, and registering a new route,
\* or a middleware, when its table is full leaves the table and its count
\* unchanged.
C9_FullTableUnchanged ==
    /\ [](route_count <= CREST_MAX_ROUTES /\ middleware_count <= CREST_MAX_MIDDLEWARE)
    /\ [][/\ ( /\ lastCall'.fn = "register"
               /\ route_count = CREST_MAX_ROUTES
               /\ IndexesOf(lastCall'.method, lastCall'.path) = {} )
                => (routes' = routes /\ route_count' = route_count)
          /\ (lastCall'.fn = "use" /\ middleware_count = CREST_MAX_MIDDLEWARE)
                => (middleware' = middleware /\ middleware_count' = middleware_count)
         ]_vars

\* the last call registered a pair that the full table does not hold
C9_Witness ==
    /\ lastCall.fn = "register"
    /\ route_count = CREST_MAX_ROUTES
    /\ middleware_count = CREST_MAX_MIDDLEWARE
    /\ IndexesOf(lastCall.method, lastCall.path) = {}

\* the "/"-separated segments of a string
RECURSIVE Split(_)
Split(str) ==
    IF \E i \in 1..Len(str) : str[i] = "/"
    THEN LET i == CHOOSE k \in 1..Len(str) :
                      str[k] = "/" /\ \A l \in 1..(k - 1) : str[l] # "/"
         IN <<SubSeq(str, 1, i - 1)>> \o Split(SubSeq(str, i + 1, Len(str)))
    ELSE <<str>>

\* a :name segment, and a literal segment without ":" or "*"
IsParamSeg(seg) == Len(seg) >= 2 /\ seg[1] = ":"
IsLiteralSeg(seg) == \A i \in 1..Len(seg) : seg[i] \notin {":", "*"}

\* a pattern made of literal and :name segments, with at least one :name
IsParamPattern(pattern) ==
    /\ \A i \in 1..Len(Split(pattern)) :
          IsParamSeg(Split(pattern)[i]) \/ IsLiteralSeg(Split(pattern)[i])
    /\ \E i \in 1..Len(Split(pattern)) : IsParamSeg(Split(pattern)[i])

SegmentsMatch(ps, us) ==
    /\ Len(ps) = Len(us)
    /\ \A i \in 1..Len(ps) :
          IF IsParamSeg(ps[i]) THEN Len(us[i]) > 0 ELSE ps[i] = us[i]

\* C10: a pattern of literal and :name segments matches a path exactly when
\* both have the same number of segments, each literal segment equals the
\* path's segment and each :name segment faces a non-empty segment.
C10_SegmentMatch ==
    /\ (probe.done /\ IsParamPattern(probe.pattern))
          => (probe.ok <=> SegmentsMatch(Split(probe.pattern), Split(probe.path)))
    /\ (probe.done /\ probe.pattern = <<"/", "a", "/", ":", "i", "d">>)
          => /\ probe.path = <<"/", "a", "/", "a", "b">> => probe.ok
             /\ probe.path \in {<<"/", "a", "/", "a", "b", "/", "a">>,
                                <<"/", "a", "/">>, <<"/", "a">>} => ~probe.ok

\* /a/:id was matched against /a/ab and matched
C10_Witness ==
    /\ probe.done
    /\ probe.ok
    /\ probe.pattern = <<"/", "a", "/", ":", "i", "d">>
    /\ probe.path = <<"/", "a", "/", "a", "b">>

\* a sequence without its last element
Front(seq) == SubSeq(seq, 1, Len(seq) - 1)

\* the entries the :name segments among ps[i..] capture from the segments us
RECURSIVE ParamsOf(_, _, _)
ParamsOf(ps, us, i) ==
    IF i > Len(ps) THEN <<>>
    ELSE IF IsParamSeg(ps[i])
    THEN <<[key |-> Tail(ps[i]), value |-> us[i]]>> \o ParamsOf(ps, us, i + 1)
    ELSE ParamsOf(ps, us, i + 1)

\* a pattern of literal and :name segments followed by a final "*"
IsWildcardPattern(pattern) ==
    LET ps == Split(pattern)
    IN /\ ps[Len(ps)] = <<"*">>
       /\ \A i \in 1..(Len(ps) - 1) : IsParamSeg(ps[i]) \/ IsLiteralSeg(ps[i])

\* the path has a segment for every segment of the pattern and agrees with
\* those in front of the "*"
AgreesUpToWildcard(ps, us) ==
    /\ Len(us) >= Len(ps)
    /\ SegmentsMatch(Front(ps), SubSeq(us, 1, Len(ps) - 1))

\* C11: a pattern that ends in a "*" segment matches every path that agrees
\* with it up to the "*", whatever follows, the empty remainder included, and
\* the "*" adds no path parameter: /a/* matches /a/a/ab and /a/ alike.
C11_WildcardMatchesRest ==
    (/\ probe.done
     /\ probe.path # <<>>
     /\ IsWildcardPattern(probe.pattern)
     /\ AgreesUpToWildcard(Split(probe.pattern), Split(probe.path)))
        => /\ probe.ok
           /\ probe.params = ParamsOf(Front(Split(probe.pattern)), Split(probe.path), 1)

\* a segment that is neither a :name nor the single character "*"
IsPlainSeg(seg) == (Len(seg) = 0 \/ seg[1] # ":") /\ seg # <<"*">>

\* a pattern of :name and plain segments in which a plain segment holds a
\* ":" or a "*"
IsInnerMarkPattern(pattern) ==
    LET ps == Split(pattern)
    IN /\ \A i \in 1..Len(ps) : IsParamSeg(ps[i]) \/ IsPlainSeg(ps[i])
       /\ \E i \in 1..Len(ps) : IsPlainSeg(ps[i]) /\ ~IsLiteralSeg(ps[i])

\* C12: a segment that does not begin with ":" and is not the single
\* character "*" matches only an equal path segment, also when it holds a
\* ":" or a "*": a pattern with such a segment matches exactly the paths
\* that agree with it segment by segment, and captures only its :name
\* segments.
C12_PlainSegmentsLiteral ==
    (probe.done /\ IsInnerMarkPattern(probe.pattern))
        => /\ probe.ok <=> SegmentsMatch(Split(probe.pattern), Split(probe.path))
           /\ probe.ok =>
                 probe.params = ParamsOf(Split(probe.pattern), Split(probe.path), 1)

\* the text holds a ":" or a "*"
HasMark(str) == \E k \in 1..Len(str) : str[k] \in {":", "*"}

\* C15: every registered entry of the route table has is_pattern true exactly
\* when its path holds a ":" or a "*", and a non-null pattern string exactly
\* when is_pattern is true; this holds after first registrations and after
\* overwrites alike.
C15_PatternFlagDerived ==
    \A i \in 0..(route_count - 1) :
        /\ routes[i].is_pattern <=> HasMark(routes[i].path)
        /\ routes[i].pattern # NULLSTR <=> routes[i].is_pattern

\* the last call overwrote the entry of GET /users/:id, which is not the last
\* of the table, and the table also holds a route without ":" or "*"
C15_Witness ==
    /\ lastCall.fn = "register"
    /\ lastCall.path = PathUsersId
    /\ lastCall.handler = "h2"
    /\ \E i \in IndexesOf(CREST_GET, PathUsersId) :
          /\ i < route_count - 1
          /\ routes[i].handler = "h2"
          /\ routes[i].is_pattern
          /\ routes[i].pattern = PathUsersId
    /\ \E j \in 0..(route_count - 1) :
          ~routes[j].is_pattern /\ routes[j].pattern = NULLSTR

(***************************************************************************)
(* Claims about request handling                                           *)
(***************************************************************************)
\* the handler of a route has run for the connection and nothing was freed yet
HandlerRan ==
    /\ hpc \in {"send", "close"}
    /\ calls # <<>>
    /\ calls[Len(calls)].fn = "handler"

\* C13: when the selected route is a pattern route, after the handling pass
\* the request's parameter list holds exactly one entry per :name segment of
\* the pattern, from left to right, with the name as key and the whole path
\* segment as value, and crest_request_param returns that value for the name.
C13_ParamsPerName ==
    (HandlerRan /\ routes[route_found].is_pattern)
        => LET expected == ParamsOf(Split(routes[route_found].path), Split(req.path), 1)
           IN /\ req.path_params = expected
              /\ \A i \in 1..Len(expected) :
                    crest_request_param(req, expected[i].key) = expected[i].value

\* the parameters the handling pass extracts from the route at index i
ParamsOfRoute(i) ==
    IF routes[i].is_pattern
    THEN match_route_pattern(routes[i].path, req.path, <<>>).params
    ELSE <<>>

\* C14: find_route does not modify the request: the parameter list is empty
\* until a route has been selected, and afterwards it holds the parameters of
\* the selected route and none that a probe of an earlier, rejected pattern
\* route captured.
C14_FindRouteLeavesRequest ==
    /\ [](hpc \in {"middleware", "find", "handle"} => req.path_params = <<>>)
    /\ []((hpc \in {"send", "close"} /\ req # NoRequest)
             => req.path_params =
                    IF HandlerRan THEN ParamsOfRoute(route_found) ELSE <<>>)
    /\ [][hpc = "find" => req' = req]_vars

\* GET /a/ab was served by GET /a/:id after the probe of GET /:x/b had
\* captured x = a and failed; the request holds id = ab only
C14_Witness ==
    /\ HandlerRan
    /\ route_found = 1
    /\ routes[0].path = PathXB
    /\ routes[1].path = PathAId
    /\ req.method = CREST_GET
    /\ ~match_route_pattern(PathXB, req.path, <<>>).ok
    /\ match_route_pattern(PathXB, req.path, <<>>).params =
           <<[key |-> <<"x">>, value |-> <<"a">>]>>
    /\ req.path_params = <<[key |-> <<"i", "d">>, value |-> <<"a", "b">>]>>

\* C16: for each request the middleware run in registration order;
\* middleware i runs only if every earlier one returned true, and once one
\* returned false no later middleware, no route lookup and no handler runs.
C16_MiddlewareOrder ==
    \A k \in 1..Len(calls) :
        /\ calls[k].fn = "middleware"
              => /\ k <= middleware_count
                 /\ calls[k].index = k - 1
                 /\ calls[k].function = middleware[k - 1].handler
                 /\ \A j \in 1..(k - 1) : calls[j].fn = "middleware" /\ calls[j].ret
        /\ (calls[k].fn = "middleware" /\ ~calls[k].ret) => k = Len(calls)
        /\ calls[k].fn \in {"find_route", "handler"}
              => /\ k > middleware_count
                 /\ \A j \in 1..middleware_count :
                       calls[j].fn = "middleware" /\ calls[j].ret

\* m1 returned true, m2 returned false, and the response was written with no
\* route lookup and no handler call
C16_Witness ==
    /\ hpc = "close"
    /\ written # <<>>
    /\ middleware_count = 2
    /\ Len(calls) = 2
    /\ calls[1].function = "m1" /\ calls[1].ret
    /\ calls[2].function = "m2" /\ ~calls[2].ret

\* the header lines and the body of response r as they appear on the socket
HeaderLinesOf(r) ==
    [i \in 1..Len(r.headers) |-> r.headers[i].key \o ": " \o r.headers[i].value \o "\r\n"]

BodyOf(r) == IF r.body = NULLTXT THEN "" ELSE r.body

\* a middleware halted the chain and the response went out
HaltedAndWritten == halted # <<>> /\ written # <<>>

\* C17 as stated: when a middleware halts the chain, the response written is
\* exactly the response as that middleware left it; no step between the halt
\* and the write changes its status code, headers or body.
C17_HaltedWrittenAsLeft ==
    HaltedAndWritten
        => /\ written[1].status_code = halted[1].status_code
           /\ written[1].header_lines = HeaderLinesOf(halted[1])
           /\ written[1].body = BodyOf(halted[1])

\* C17 amended: when a middleware halts the chain, the response written has
\* the headers and the body the middleware left, and the status code it left,
\* except that a status code left unset (0) is written as 200; between the
\* halt and the write nothing else of the response changes.
C17_HaltedWrittenDefaulted ==
    /\ HaltedAndWritten
          => /\ written[1].status_code =
                    IF halted[1].status_code = 0 THEN 200 ELSE halted[1].status_code
             /\ written[1].header_lines = HeaderLinesOf(halted[1])
             /\ written[1].body = BodyOf(halted[1])
    /\ (halted # <<>> /\ hpc = "send") => res = halted[1]
    /\ (halted # <<>> /\ hpc = "close")
          => res = [halted[1] EXCEPT !.status_code = IF @ = 0 THEN 200 ELSE @]

\* a middleware served a page without setting a status and returned false;
\* the response went out with status 200
C17_Witness ==
    /\ HaltedAndWritten
    /\ halted[1].status_code = 0
    /\ halted[1].body = "<html></html>"
    /\ written[1].status_line = "HTTP/1.1 200 OK\r\n"
    /\ written[1].header_lines = <<"content-type: text/html\r\n">>
    /\ written[1].body = "<html></html>"

\* the calls of the connection that set a status
StatusSetters == {k \in 1..Len(calls) : calls[k].status # 0}

\* find_route returned NULL for the connection
RouteNotFound ==
    /\ calls # <<>>
    /\ calls[Len(calls)].fn = "find_route"
    /\ calls[Len(calls)].index = -1

\* C18: every response written has a status code other than 0: 200 when
\* neither a middleware nor the handler set one, and the status that was set
\* when one did (404 when the server answers for a missing route).
C18_StatusWritten ==
    written # <<>>
        => /\ written[1].status_code # 0
           /\ written[1].status_line =
                  "HTTP/1.1 " \o ToString(written[1].status_code) \o " "
                  \o status_text(written[1].status_code) \o "\r\n"
           /\ written[1].status_code =
                  IF RouteNotFound THEN CREST_STATUS_NOT_FOUND
                  ELSE IF StatusSetters = {} THEN 200
                  ELSE calls[CHOOSE k \in StatusSetters :
                                 \A l \in StatusSetters : l <= k].status

\* a handler ran behind two middleware, none of them set a status, and the
\* response went out with status 200
C18_Witness ==
    /\ written # <<>>
    /\ HandlerRan
    /\ Len(calls) = 4
    /\ StatusSetters = {}
    /\ written[1].status_line = "HTTP/1.1 200 OK\r\n"

\* text holds sub as a substring
Contains(text, sub) ==
    \E i \in 1..(Len(text) - Len(sub) + 1) : SubSeq(text, i, i + Len(sub) - 1) = sub

\* no registered route takes the request: none has its method and a path
\* that is equal to, or as a pattern matches, its path
NoRouteMatches ==
    \A i \in 0..(route_count - 1) :
        ~(/\ routes[i].method = req.method
          /\ IF routes[i].is_pattern
             THEN match_route_pattern(routes[i].path, req.path, <<>>).ok
             ELSE routes[i].path = req.path)

\* the header lines that give a content type
ContentTypeLines(lines) ==
    {i \in 1..Len(lines) : LowerText(SubSeq(lines[i], 1, 13)) = "content-type:"}

\* C19: when every middleware passes and no registered route matches the
\* request's method and path, no handler is invoked and the response written
\* has status 404, the content type application/json, and a body with the
\* keys error, message, details.requested_path and available_routes, the
\* requested_path being the path of the request.
C19_NotFoundResponse ==
    (/\ hpc = "close"
     /\ written # <<>>
     /\ halted = <<>>
     /\ NoRouteMatches)
        => /\ \A k \in 1..Len(calls) : calls[k].fn # "handler"
           /\ written[1].status_line = "HTTP/1.1 404 Not Found\r\n"
           /\ \E i \in 1..Len(written[1].header_lines) :
                 /\ ContentTypeLines(written[1].header_lines) = {i}
                 /\ written[1].header_lines[i] = "Content-Type: application/json\r\n"
           /\ Contains(written[1].body, "{\"error\":\"")
           /\ Contains(written[1].body, ",\"message\":\"")
           /\ Contains(written[1].body,
                       ",\"details\":{\"requested_path\":\"" \o Str(req.path) \o "\",")
           /\ Contains(written[1].body, ",\"available_routes\":[")

\* both middleware passed, GET /b found no route among three, and the 404
\* response went out
C19_Witness ==
    /\ hpc = "close"
    /\ written # <<>>
    /\ NoRouteMatches
    /\ route_count = 3
    /\ Len(calls) = 3
    /\ calls[2].fn = "middleware" /\ calls[2].ret
    /\ req.path = <<"/", "b">>
    /\ written[1].status_code = 404

\* the entry of the route at index i as the 404 body lists it
ListedRoute(i) ==
    (IF i > 0 THEN "," ELSE "")
    \o "{\"method\":\"" \o method_str[routes[i].method]
    \o "\",\"path\":\"" \o Str(routes[i].path) \o "\""
    \o (IF routes[i].description # NULLSTR
        THEN ",\"description\":\"" \o Str(routes[i].description) \o "\""
        ELSE "")
    \o "}"

\* the entries of the routes 0 .. n - 1, in this order
RECURSIVE ListedRoutes(_)
ListedRoutes(n) == IF n = 0 THEN "" ELSE ListedRoutes(n - 1) \o ListedRoute(n - 1)

Min(a, b) == IF a < b THEN a ELSE b

\* C20: the available_routes array of the 404 body lists exactly the first
\* min(ROUTES_SHOWN_MAX, route_count) routes of the table, in registration
\* order, each with its method and path, and is empty when no route is
\* registered.
C20_AvailableRoutes ==
    (hpc = "close" /\ written # <<>> /\ RouteNotFound)
        => Contains(written[1].body,
                    ",\"available_routes\":["
                    \o ListedRoutes(Min(ROUTES_SHOWN_MAX, route_count))
                    \o "],\"warnings\":[")

\* the table holds more routes than the body shows: the 404 body lists
\* GET /:x/b and GET /a/:id and leaves out POST /a
C20_Witness ==
    /\ hpc = "close"
    /\ written # <<>>
    /\ RouteNotFound
    /\ route_count > ROUTES_SHOWN_MAX
    /\ routes[2].path = PathA
    /\ Contains(written[1].body,
                ",\"available_routes\":[{\"method\":\"GET\",\"path\":\"/:x/b\"},"
                \o "{\"method\":\"GET\",\"path\":\"/a/:id\",\"description\":\"d\"}],")

(***************************************************************************)
(* Claims about the connection loop                                        *)
(***************************************************************************)
\* the moves of hpc that follow the path Accepted (recv), Parsed,
\* MiddlewareRunning (middleware), HaltedByMiddleware or Routed (find,
\* handle), HandlerExecuted (send), ResponseSent (close), Closed (accept)
ConnectionPath ==
    {<<"accept", "recv">>,
     <<"recv", "middleware">>, <<"recv", "find">>, <<"recv", "close">>,
     <<"middleware", "middleware">>, <<"middleware", "find">>,
     <<"middleware", "send">>,
     <<"find", "handle">>, <<"handle", "send">>, <<"send", "close">>,
     <<"close", "accept">>}

\* the connection is open
Open == client_fd = <<4>>

\* what C21 says of the steps of a connection: hpc moves along the path; a
\* response is written once at most, on the open socket, and no middleware or
\* handler is called after it; the socket is closed only after
\* handle_connection returned
ConnectionSteps ==
    /\ [][Open => (hpc' = hpc \/ <<hpc, hpc'>> \in ConnectionPath)]_vars
    /\ [][Len(written') <= 1]_vars
    /\ [][written' # written /\ written' # <<>> => Open /\ hpc = "send"]_vars
    /\ [][written # <<>> /\ calls' # calls => ~Open']_vars
    /\ [][Open /\ ~Open' => hpc = "close"]_vars

\* C21 as stated: each accepted connection moves only along the path, with
\* one response at most, written after the handler or the halting middleware
\* finished and before the socket is closed, and every accepted connection is
\* closed in the end, provided its middleware and handler return.
C21_EveryAcceptedCloses ==
    /\ ConnectionSteps
    /\ (Open ~> ~Open)

\* C21 amended: the same steps, and every accepted connection whose recv
\* returned is closed in the end.
C21_EveryReadCloses ==
    /\ ConnectionSteps
    /\ ((Open /\ recvd # <<>>) ~> ~Open)

\* a handler ran, its response was written and handle_connection returned
C21_Witness ==
    /\ Open
    /\ hpc = "close"
    /\ Len(written) = 1
    /\ \E k \in 1..Len(calls) : calls[k].fn = "handler"

\* the request line of a text: what stands before its first line end
RequestLineOf(raw) ==
    LET nl == strchr_at(raw, "\n")
    IN IF nl = 0 THEN raw ELSE SubSeq(raw, 1, nl - 1)

\* the number of white-space separated tokens of a text from index i on
RECURSIVE TokenCount(_, _)
TokenCount(text, i) ==
    LET b == skip_space(text, i)
    IN IF b > Len(text) THEN 0
       ELSE 1 + TokenCount(text, token_end(text, b, Len(text)))

\* recv returned no bytes, or a text whose request line has fewer than three
\* tokens
Unparsable ==
    /\ recvd # <<>>
    /\ \/ recvd[1].bytes_read <= 0
       \/ TokenCount(RequestLineOf(recvd[1].raw), 1) < 3

\* C22: a connection whose request line has fewer than three tokens, or whose
\* read returned no bytes, is closed with no response written and no
\* middleware or handler run.
C22_UnparsableClosedSilently ==
    Unparsable => hpc = "close" /\ written = <<>> /\ calls = <<>>

\* the index of the first "\r\n" of a text from index i on, 0 if none
LineEnd(text, i) ==
    LET At(k) == SubSeq(text, k, k + 1) = "\r\n"
    IN IF \E k \in i..(Len(text) - 1) : At(k)
       THEN CHOOSE k \in i..(Len(text) - 1) : At(k) /\ \A l \in i..(k - 1) : ~At(l)
       ELSE 0

\* the lines of a text from index i on, up to the first empty line, and the
\* index behind that empty line (0 when the text has none)
RECURSIVE HeadOf(_, _, _)
HeadOf(text, i, lines) ==
    LET e == LineEnd(text, i)
    IN IF e = 0 THEN [lines |-> lines, rest |-> 0]
       ELSE IF e = i THEN [lines |-> lines, rest |-> i + 2]
       ELSE HeadOf(text, e + 2, Append(lines, SubSeq(text, i, e - 1)))

\* the header a "Key: value" line stands for
HeaderOf(line) ==
    LET colon == strchr_at(line, ":")
    IN [key |-> SubSeq(line, 1, colon - 1),
        value |-> SubSeq(line, skip_blanks(line, colon + 1), Len(line))]

\* the "Key: value" lines between the request line and the first empty line,
\* in their order
SentHeaders(raw) ==
    LET lines == Tail(HeadOf(raw, 1, <<>>).lines)
        Keyed == {k \in 1..Len(lines) : strchr_at(lines[k], ":") # 0}
        Pick(k) == CHOOSE j \in Keyed : Cardinality({l \in Keyed : l <= j}) = k
    IN [k \in 1..Cardinality(Keyed) |-> HeaderOf(lines[Pick(k)])]

\* the bytes behind the first empty line
SentBody(raw) ==
    LET rest == HeadOf(raw, 1, <<>>).rest
    IN IF rest = 0 \/ rest > Len(raw) THEN "" ELSE SubSeq(raw, rest, Len(raw))

\* a request was received whose head ends with an empty line, and parsed
ParsedHead ==
    /\ recvd # <<>>
    /\ req # NoRequest
    /\ HeadOf(recvd[1].raw, 1, <<>>).rest # 0

\* C24: the header list of a parsed request holds exactly the "Key: value"
\* lines between the request line and the first empty line, in their order,
\* so no line of the body is among them, and the body of the request is
\* exactly the bytes behind that empty line.
C24_HeadersAndBody ==
    ParsedHead
        => /\ req.headers = SentHeaders(recvd[1].raw)
           /\ (IF req.body = NULLTXT THEN "" ELSE req.body) = SentBody(recvd[1].raw)

(***************************************************************************)
(* Claims about the response API                                           *)
(***************************************************************************)
BodySetters == {"crest_response_send", "crest_response_json", "crest_response_sendf"}

\* a body-setting function was called on a response whose sent flag was true
CalledWhenSent == lastApi.fn \in BodySetters /\ lastApi.before.sent

\* C23: once the sent flag of a response is true, a further call of
\* crest_response_send, crest_response_json or crest_response_sendf leaves
\* its body, its body length and its header list as they were.
C23_SentIsFinal ==
    CalledWhenSent
        => /\ response.body = lastApi.before.body
           /\ response.body_len = lastApi.before.body_len
           /\ response.headers = lastApi.before.headers

(***************************************************************************)
(* Claims about the JSON engine                                            *)
(***************************************************************************)
\* the value came straight from crest_json_parse, was written by
\* crest_json_stringify, and the text was parsed again
RoundTripDone == jpc = "done" /\ jsets = 0

\* C25: for every value V that crest_json_parse returns,
\* crest_json_parse(crest_json_stringify(V)) succeeds and is structurally
\* equal to V: same tags, key order, array order, strings (those holding
\* control characters too) and numbers.
C25_RoundTrip ==
    RoundTripDone => /\ jback[1] # <<>>
                     /\ jback[1][1] = jval[1]

\* the same for values none of whose strings or keys holds a control
\* character that has no short escape
HoldsRawControl(text) == \E i \in 1..Len(text) : text[i] = SOH

C25_RoundTripPlain ==
    (RoundTripDone /\ ~HoldsRawControl(jtext)) =>
        /\ jback[1] # <<>>
        /\ jback[1][1] = jval[1]

C25_PlainWitness ==
    /\ RoundTripDone
    /\ jval[1].type = "object"
    /\ Len(jval[1].keys) = 2
    /\ jback[1] = jval

RECURSIVE DistinctKeys(_)
DistinctKeys(value) ==
    /\ \A i, j \in 1..Len(value.keys) : value.keys[i] = value.keys[j] => i = j
    /\ \A i \in 1..Len(value.values) : DistinctKeys(value.values[i])
    /\ \A i \in 1..Len(value.items) : DistinctKeys(value.items[i])

\* the last crest_json_set call was made on an object
SetOnObject == jlast.called /\ jlast.before.type = "object"

\* the place of the key of the last call in the object before it, 0 if none
PlaceBefore ==
    IF \E i \in 1..Len(jlast.before.keys) : jlast.before.keys[i] = jlast.key
    THEN CHOOSE i \in 1..Len(jlast.before.keys) : jlast.before.keys[i] = jlast.key
    ELSE 0

\* C27: after any crest_json_set calls on an object, and after parsing an
\* object text that repeats a key, the keys are pairwise distinct; setting an
\* existing key replaces the value at its place and leaves the other keys and
\* values as they were, and setting a new key appends it at the end.
C27_KeysDistinctSetInPlace ==
    /\ jval # <<>> => DistinctKeys(jval[1])
    /\ (SetOnObject /\ PlaceBefore > 0) =>
          /\ jval[1].keys = jlast.before.keys
          /\ jval[1].values =
                [jlast.before.values EXCEPT ![PlaceBefore] = jlast.value]
    /\ (SetOnObject /\ PlaceBefore = 0) =>
          /\ jval[1].keys = Append(jlast.before.keys, jlast.key)
          /\ jval[1].values = Append(jlast.before.values, jlast.value)

\* the text repeated the key "a" with "b" between, and "a" was then set again
C27_Witness ==
    /\ jtext = Chars("{\"a\":1,\"b\":2,\"a\":[3]}")
    /\ SetOnObject
    /\ PlaceBefore = 1
    /\ jsets = 2
    /\ jval[1].keys = <<<<"a">>, <<"b">>, <<"z">>>>

(***************************************************************************)
(* Claims about starting the server                                        *)
(***************************************************************************)
\* bind or listen failed: crest_run has returned -1, running was never set,
\* and the loop is not entered
StartupAborted ==
    failed_call \in {"bind", "listen"} =>
        /\ run_ret = <<-1>>
        /\ ~running
        /\ hpc = "returned"
        /\ client_fd = <<>>

\* an accept that failed leaves the server at accept, running, with nothing
\* received, called or written for it
FailedAcceptRetried ==
    client_fd = <<-1>> =>
        /\ hpc = "accept"
        /\ running
        /\ run_ret = <<>>
        /\ recvd = <<>>
        /\ calls = <<>>
        /\ written = <<>>
        /\ ENABLED AcceptConnection

\* C28: a failure of bind or listen makes crest_run return -1 without
\* setting the running flag and without entering the accept loop; a failed
\* accept neither ends the loop nor handles a connection, and the next accept
\* is attempted.
C28_StartupAndAcceptFailures ==
    /\ StartupAborted
    /\ FailedAcceptRetried
    /\ hpc = "returned" => ~ENABLED NextServer

\* accept failed twice in a row after the socket was set up
C28_Witness ==
    /\ failed_call = "none"
    /\ client_fd = <<-1>>
    /\ hpc = "accept"

(***************************************************************************)
(* Claims about the pooled server                                          *)
(***************************************************************************)
\* the worker is inside a read of app->routes or app->route_count
ReadsTable(w) == tpc[w] \in {"find", "get_swagger_html", "get_openapi_json"}

\* the owning thread is inside a write of the table or of an entry
WritesTable == rpc \in {"locked", "set_cpp_handler"}

\* C29: in the pooled server every read of the route table made while
\* handling a connection, those made to answer /docs and /openapi.json
\* included, and every registration or schema update happens while holding
\* the app's one route mutex, so no worker reads the table while it is
\* appended to or reallocated.
C29_TableUnderMutex ==
    /\ \A w \in PoolWorkers : ReadsTable(w) => route_mutex = w
    /\ WritesTable => route_mutex = "main"
    /\ ~(WritesTable /\ \E w \in PoolWorkers : ReadsTable(w))

\* the same for the reads of the route lookup and the writes of
\* crest_route and crest_set_request_schema alone
C29_LookupUnderMutex ==
    /\ \A w \in PoolWorkers : tpc[w] = "find" => route_mutex = w
    /\ rpc = "locked" => route_mutex = "main"
    /\ ~(rpc = "locked" /\ \E w \in PoolWorkers : tpc[w] = "find")

(***************************************************************************)
(* Claims about the reserved routes                                        *)
(***************************************************************************)
\* entry i is a reserved route bound to its built-in handler
ReservedBound(i) ==
    /\ i < route_count
    /\ routes[i].method = CREST_GET
    /\ routes[i].path \in ReservedPaths
    /\ routes[i].handler = BuiltInHandler(routes[i].path)

\* C30: after crest_enable_dashboard(app, true) the reserved routes GET
\* /docs, /redoc, /openapi.json, /dashboard and /api/routes stay bound to the
\* built-in handlers: a later registration of the same (method, path) by the
\* application does not replace the handler of a reserved route.
C30_ReservedStayBound ==
    [][lastCall'.fn = "register" =>
          \A i \in DashboardIndex :
             ReservedBound(i) => routes'[i].handler = routes[i].handler]_vars

\* registrations on other paths leave the reserved routes as they are
C30_OthersLeaveReserved ==
    [][(lastCall'.fn = "register" /\ lastCall'.path \notin ReservedPaths) =>
          \A i \in DashboardIndex :
             ReservedBound(i) => routes'[i] = routes[i]]_vars

(***************************************************************************)
(* Claims about crest::ThreadPool                                          *)
(***************************************************************************)
\* every worker has returned
AllReturned == \A i \in 1..Len(CppWorkers) : cwpc[i] = "returned"

\* C31: every task passed to enqueue before the destructor begins is
\* executed exactly once before the destructor returns; a worker returns only
\* when stop_ is set and the queue is empty; the destructor returns only after
\* every worker was joined; and under any interleaving of running threads the
\* destructor does return.
C31_DrainedBeforeDestroyed ==
    /\ [](\A t \in 1..MaxEnqueued : cexec[t] <= 1)
    /\ [](mpc = "destroyed" =>
            /\ \A t \in 1..nenq : cexec[t] = 1
            /\ AllReturned
            /\ tasks_ = <<>>)
    /\ [][\A i \in 1..Len(CppWorkers) :
            (cwpc[i] # "returned" /\ cwpc'[i] = "returned") =>
                (stop_ /\ tasks_ = <<>>)]_vars
    /\ (stop_ ~> mpc = "destroyed")

\* the destructor has returned after MaxEnqueued enqueue calls
C31_Witness ==
    /\ mpc = "destroyed"
    /\ nenq = MaxEnqueued
    /\ \A t \in 1..nenq : cexec[t] = 1

(***************************************************************************)
(* Claims about the response API of the pooled server                      *)
(***************************************************************************)
\* the text the first call printed
FirstMessage == http_message(hfirst.fn, hfirst.status, hfirst.text)

\* C32: the first call among crest_response_json/text/html on a response
\* sets its status, body and sent flag, and every later call changes nothing,
\* so the status and body that reach the socket are those of the first call.
C32_FirstCallWins ==
    /\ hcalls = 0 => (~hres.sent /\ hres.body = NULLTXT)
    /\ hcalls > 0 =>
          /\ hres.sent
          /\ hres.status = hfirst.status
          /\ hres.body = FirstMessage
          /\ SubSeq(hres.body, Len(hres.body) - Len(hfirst.text) + 1, Len(hres.body))
                = hfirst.text
    /\ (hdone /\ hcalls > 0) => hsock = <<FirstMessage>>

\* a second and a third call with another status came after the first, and
\* the response was sent
C32_Witness ==
    /\ hcalls = MaxHttpCalls
    /\ hdone
    /\ hfirst = [fn |-> "text/plain", status |-> 404, text |-> "bye"]
    /\ hsock = <<"HTTP/1.1 404 OK\r\nContent-Type: text/plain\r\nContent-Length: 3\r\nConnection: close\r\n\r\nbye">>

(***************************************************************************)
(* C33: the body parser in the middleware chain                            *)
(***************************************************************************)
\* the request carries a body and a Content-Type header that names
\* application/json
DeclaresJson(request) ==
    /\ request.body # NULLTXT
    /\ \E i \in 1..Len(request.headers) :
          /\ strcasecmp(request.headers[i].key, "Content-Type")
          /\ Contains(request.headers[i].value, "application/json")

\* the request's body is a JSON text
BodyParses(request) == crest_json_parse(Chars(request.body)) # <<>>

NoDuplicateRoutes ==
    \A i, j \in 1..capp.route_count :
        (capp.routes[i].method = capp.routes[j].method
         /\ capp.routes[i].path = capp.routes[j].path) => i = j

\* the call of thread t is about to return from behind the lock
AboutToReturn(t) == cpc[t] = "unlock"

WorkersExited == \A w \in Workers : wpc[w] = "exit"

\* C35: the push of a submit that returns true is never made once every
\* worker has exited or the queue has been destroyed, so that the task can
\* still be executed.
C35_NoPushAfterWorkersExit ==
    [][\A s \in Submitters :
          (spc[s] = "push" /\ spc'[s] = "true") => (~freed /\ ~WorkersExited)]_vars

(***************************************************************************)
(* C36: route handlers of the pooled server                                *)
(***************************************************************************)
\* the workers inside a route handler
InHandler == {w \in PoolWorkers : tpc[w] = "handler"}

\* C36: a worker inside a route handler holds the route mutex, and at most
\* one worker is inside a route handler.
C36_OneHandlerAtATime ==
    /\ \A w \in InHandler : route_mutex = w
    /\ Cardinality(InHandler) <= 1

\* one worker runs the handler of a route while the other worker, with a
\* request for the same route, waits for the mutex
C36_Witness ==
    /\ tpc["w1"] = "handler" /\ route_mutex = "w1"
    /\ tpc["w2"] = "recv" /\ treq["w2"] = treq["w1"]
    /\ ~(docs_enabled /\ is_docs_route(treq["w2"]))

(***************************************************************************)
(* C37: requests with an unknown method token                              *)
(***************************************************************************)
\* the method tokens parse_request knows
KnownMethods == {"GET", "POST", "PUT", "DELETE", "PATCH", "HEAD", "OPTIONS"}

\* the first token of the request line
MethodToken(raw) == sscanf_s(raw, 1, <<15>>)[1]

\* C37: a handler is called only for a request whose method token is one of
\* GET, POST, PUT, DELETE, PATCH, HEAD, OPTIONS.
C37_UnknownMethodNotDispatched ==
    \A k \in 1..Len(calls) :
        calls[k].fn = "handler" =>
            /\ recvd # <<>>
            /\ MethodToken(recvd[1].raw) \in KnownMethods

(***************************************************************************)
(* C38: the task queue between critical sections                           *)
(***************************************************************************)
\* the nodes reached from node along next, at most fuel of them
RECURSIVE NodesFrom(_, _, _)
NodesFrom(nodes, node, fuel) ==
    IF node = NULL \/ fuel = 0 THEN <<>>
    ELSE <<node>> \o NodesFrom(nodes, nodes[node].next, fuel - 1)

\* the nodes of the queue in the order of the list
Linked == NodesFrom(heap, head, Len(heap) + 1)

\* size counts the nodes reachable from head, head and tail are NULL exactly
\* when size is 0, and tail is the last node of the list
WellFormed ==
    /\ size = Len(Linked)
    /\ (head = NULL) = (size = 0)
    /\ (tail = NULL) = (size = 0)
    /\ size > 0 => (tail = Linked[Len(Linked)] /\ heap[tail].next = NULL)

\* C38: between the critical sections of task_queue_push and task_queue_pop
\* the queue, while it exists, is well formed; a push makes size one more, a
\* pop one less, and no other step changes size.
C38_QueueWellFormed ==
    /\ [](~freed => WellFormed)
    /\ [][size' - size = (Len(heap') - Len(heap)) - (Len(popLog') - Len(popLog))
          /\ Len(heap') - Len(heap) \in {0, 1}
          /\ Len(popLog') - Len(popLog) \in {0, 1}
          /\ ~(Len(heap') > Len(heap) /\ Len(popLog') > Len(popLog))]_vars

\* the queue holds two nodes after at least one pop
C38_Witness ==
    /\ ~freed
    /\ size = 2 /\ head # tail
    /\ popLog # <<>>

=============================================================================
